---- MODULE Spec2Model ----
(***************************************************************************)
(* A model of the DocxMaster layout engine (src/src/core.py): the display  *)
(* width calculator, the word segmenter and the two line wrappers, the     *)
(* merged-cell resolver, the column tiering, the table renderer, the block *)
(* formatter with its anchors, and the document walker extract_content;    *)
(* with it the table path of the legacy engine (src/src/docx_extractor.py) *)
(* and the processing flag of the window (src/src/gui.py).                 *)
(*                                                                         *)
(* A string is a sequence of code points (integers), so ord(c) > 127 and   *)
(* c.isspace() are what they are in the source.  A raised exception is a   *)
(* record [exc |-> kind]; a list of dicts is a sequence of records.        *)
(***************************************************************************)
EXTENDS Integers, Sequences, FiniteSets, TLC

VARIABLES
    \* the line wrappers, called on one text
    text, available, indent, wrap_units, wrap_out, cell_units, cell_lines, wpc,
    \* one table on its way through _process_table
    tbl,                \* the table handed in: its rows of raw cells
    current_table,      \* self.current_table
    spans,              \* what _get_merged_cell_info returned, per raw cell
    tdata, ncols, widths,   \* the locals table_data, max_cols, col_widths
    out_lines,          \* the list `result` of _generate_table_string
    result,             \* what _process_table returns
    tpc,
    \* two titles handed to the block formatter
    titles, title_out,
    \* extract_content on one document after another, on one extractor
    doc,                \* the document the provider serves, and where it fails
    content,            \* the local `content`: None while it is unbound
    p_index, t_index, processed_elements,
    progress_marks,     \* which of _progress_25/50/75 the extractor has
    log,                \* the progress lines logged by this call
    outcome,            \* what the call returned or raised
    dpc,
    \* the width calculator and the column tiering called on their own
    config,             \* the config handed to DocumentExtractor(config), or None
    engine,             \* the fields __init__ gave the extractor
    content_widths,     \* max_content_widths, one entry per column
    tier_widths,        \* col_widths as _calculate_column_widths returned them
    wc_text, wc_width,  \* a string and what _get_string_width returned for it
    span_tables,        \* two tables that differ in the text of a spanning cell
    span_widths,        \* col_widths of each of the two, None where it failed
    legacy,             \* what the legacy engine made of tbl: None before its call
    cpc,
    \* the window of gui.py and the worker threads its two buttons start
    processing,         \* self.processing
    threads,            \* every Thread started so far: its target and how far it is
    requests            \* how many button commands the main loop has run

wrapVars == <<text, available, indent, wrap_units, wrap_out, cell_units, cell_lines, wpc>>

tableVars == <<tbl, current_table, spans, tdata, ncols, widths,
               out_lines, result, tpc>>

anchorVars == <<titles, title_out>>

docVars == <<doc, content, p_index, t_index, processed_elements, progress_marks,
             log, outcome, dpc>>

calcVars == <<config, engine, content_widths, tier_widths, wc_text, wc_width,
              span_tables, span_widths, legacy, cpc>>

guiVars == <<processing, threads, requests>>

vars == <<wrapVars, tableVars, anchorVars, docVars, calcVars, guiVars>>

(***************************************************************************)
(* Program constants (core.py:17-39).                                      *)
(***************************************************************************)
UNICODE_BOUNDARY == 127
SINGLE_CHAR_WIDTH == 1
DOUBLE_CHAR_WIDTH == 2
CELL_PADDING == 2
CELL_LEFT_PADDING == 1
NEWLINE_THRESHOLD == 2
BASE_COLUMN_WIDTH == 15
LEVEL_2_MULTIPLIER == 2
LEVEL_3_MULTIPLIER == 3

(***************************************************************************)
(* Code points used by the model.                                          *)
(***************************************************************************)
LF == 10            \* '\n'
SP == 32            \* ' '
CH_a == 97          \* 'a'
CH_x == 120         \* 'x'
CH_y == 121         \* 'y'
CJK == 20013        \* a double-width ideograph
IDSP == 12288       \* U+3000, the ideographic space: isspace() and > 127

\* An optional value is None or Some(x); a string-valued attribute that is
\* absent is the string "None".
None == <<>>
Some(x) == <<x>>
Absent == "None"

(***************************************************************************)
(* Bounds of the model.                                                    *)
(***************************************************************************)
MaxTextLen == 5     \* longest text handed to the wrappers
MaxWidth == 5       \* largest available width handed to the wrappers
MaxMergeRows == 4   \* rows of a grid handed to the merge resolver alone
MaxCells == 4       \* raw cells of a table handed to _process_table
MaxBlocks == 3      \* elements of a document body
MaxColumnContent == 50  \* widest content of a column handed to the tiering alone
MaxStringLen == 4   \* longest string handed to the width calculator alone

(***************************************************************************)
(* Sequence helpers.                                                       *)
(***************************************************************************)
Max2(a, b) == IF a >= b THEN a ELSE b
Min2(a, b) == IF a <= b THEN a ELSE b

RECURSIVE Concat(_)
\* "".join(parts)
Concat(parts) ==
    IF parts = <<>> THEN <<>> ELSE Head(parts) \o Concat(Tail(parts))

\* c * n: the empty string when n <= 0
Repeat(c, n) == [i \in 1..n |-> c]

\* str.isspace() of one code point
IsSpace(c) ==
    \/ c \in 9..13
    \/ c \in 28..32
    \/ c \in {133, 160, 5760, 8232, 8233, 8239, 8287, 12288}
    \/ c \in 8192..8202

RECURSIVE LStrip(_)
LStrip(s) == IF s # <<>> /\ IsSpace(Head(s)) THEN LStrip(Tail(s)) ELSE s

RECURSIVE RStrip(_)
RStrip(s) ==
    IF s # <<>> /\ IsSpace(s[Len(s)]) THEN RStrip(SubSeq(s, 1, Len(s) - 1)) ELSE s

\* str.strip()
Strip(s) == RStrip(LStrip(s))

RECURSIVE SplitAcc(_, _, _)
SplitAcc(s, sep, cur) ==
    IF s = <<>> THEN <<cur>>
    ELSE IF Head(s) = sep THEN <<cur>> \o SplitAcc(Tail(s), sep, <<>>)
    ELSE SplitAcc(Tail(s), sep, Append(cur, Head(s)))

\* s.split(sep) for a one-character separator: never an empty list
Split(s, sep) == SplitAcc(s, sep, <<>>)

RECURSIVE JoinWith(_, _)
\* sep.join(parts)
JoinWith(parts, sep) ==
    IF parts = <<>> THEN <<>>
    ELSE IF Len(parts) = 1 THEN parts[1]
    ELSE parts[1] \o sep \o JoinWith(Tail(parts), sep)

(***************************************************************************)
(* Width calculator (core.py:57-70).                                       *)
(***************************************************************************)
\* the mutant takes the characters up to 255 for single-width
_get_char_width_latin1(char) ==
    IF char > 255 THEN DOUBLE_CHAR_WIDTH ELSE SINGLE_CHAR_WIDTH

\* DOUBLE_CHAR_WIDTH if ord(char) > UNICODE_BOUNDARY else SINGLE_CHAR_WIDTH
_get_char_width(char) ==
    IF char > UNICODE_BOUNDARY THEN DOUBLE_CHAR_WIDTH ELSE SINGLE_CHAR_WIDTH

RECURSIVE SumCharWidths(_, _)
\* the widths of s[i..] added up
SumCharWidths(s, i) ==
    IF i > Len(s) THEN 0 ELSE _get_char_width(s[i]) + SumCharWidths(s, i + 1)

_get_string_width(s) == SumCharWidths(s, 1)

(***************************************************************************)
(* Word segmenter: the loop both wrappers inline (core.py:171-190 and      *)
(* 314-332).  words and temp_word are the loop's two accumulators.         *)
(***************************************************************************)
RECURSIVE SegmentAcc_space_runs(_, _, _)
\* the mutant keeps a run of whitespace characters together as one unit
SegmentAcc_space_runs(s, words, temp_word) ==
    IF s = <<>>
    THEN IF temp_word # <<>> THEN Append(words, temp_word) ELSE words
    ELSE LET char == Head(s)
             flushed == IF temp_word # <<>> THEN Append(words, temp_word) ELSE words
         IN  IF IsSpace(char)
             THEN IF temp_word = <<>> /\ words # <<>> /\ IsSpace(words[Len(words)][1])
                  THEN SegmentAcc_space_runs(Tail(s),
                           [words EXCEPT ![Len(words)] = Append(@, char)], <<>>)
                  ELSE SegmentAcc_space_runs(Tail(s), Append(flushed, <<char>>), <<>>)
             ELSE IF char > 127
             THEN SegmentAcc_space_runs(Tail(s), Append(flushed, <<char>>), <<>>)
             ELSE SegmentAcc_space_runs(Tail(s), words, Append(temp_word, char))

RECURSIVE SegmentAcc(_, _, _)
SegmentAcc(s, words, temp_word) ==
    IF s = <<>>
    THEN IF temp_word # <<>> THEN Append(words, temp_word) ELSE words
    ELSE LET char == Head(s)
             flushed == IF temp_word # <<>> THEN Append(words, temp_word) ELSE words
         IN  IF IsSpace(char) THEN SegmentAcc(Tail(s), Append(flushed, <<char>>), <<>>)
             ELSE IF char > 127 THEN SegmentAcc(Tail(s), Append(flushed, <<char>>), <<>>)
             ELSE SegmentAcc(Tail(s), words, Append(temp_word, char))

Segment(s) == SegmentAcc(s, <<>>, <<>>)

(***************************************************************************)
(* Paragraph wrapper (core.py:159-212).  A line under construction is the  *)
(* list of its units, as current_line is in the source.                    *)
(***************************************************************************)
RECURSIVE WrapWordsAcc(_, _, _, _, _)
WrapWordsAcc(words, available_width, result_lines, current_line, current_width) ==
    IF words = <<>>
    THEN IF current_line # <<>> THEN Append(result_lines, current_line) ELSE result_lines
    ELSE LET word == Head(words)
             word_width == _get_string_width(word)
         IN  IF current_line = <<>>
             THEN WrapWordsAcc(Tail(words), available_width, result_lines,
                               <<word>>, word_width)
             ELSE IF current_width + word_width <= available_width
             THEN WrapWordsAcc(Tail(words), available_width, result_lines,
                               Append(current_line, word), current_width + word_width)
             ELSE WrapWordsAcc(Tail(words), available_width,
                               Append(result_lines, current_line), <<word>>, word_width)

\* the mutant measures a word by len(word), not by its display width
WrapParagraphUnits_len(t, mw, ind) ==
    LET RECURSIVE W(_, _, _, _)
        W(words, res, cur, cw) ==
            IF words = <<>> THEN (IF cur # <<>> THEN Append(res, cur) ELSE res)
            ELSE IF cur = <<>> THEN W(Tail(words), res, <<Head(words)>>, Len(Head(words)))
            ELSE IF cw + Len(Head(words)) <= mw - _get_string_width(ind)
            THEN W(Tail(words), res, Append(cur, Head(words)), cw + Len(Head(words)))
            ELSE W(Tail(words), Append(res, cur), <<Head(words)>>, Len(Head(words)))
    IN  W(Segment(t), <<>>, <<>>, 0)

\* result_lines of _wrap_text_by_width, each line as the list of its units
WrapParagraphUnits(t, mw, ind) ==
    WrapWordsAcc(Segment(t), mw - _get_string_width(ind), <<>>, <<>>, 0)

\* the lines as emitted: stripped, before the indent is put in front
StrippedLines(units) == [i \in 1..Len(units) |-> Strip(Concat(units[i]))]

_wrap_text_by_width(t, mw, ind) ==
    IF t = <<>> THEN <<>>
    ELSE LET lines == StrippedLines(WrapParagraphUnits(t, mw, ind))
         IN  JoinWith([i \in 1..Len(lines) |-> ind \o lines[i]], <<LF>>)

(***************************************************************************)
(* Cell wrapper (core.py:296-349).                                         *)
(***************************************************************************)
RECURSIVE CellWordsAcc_strict(_, _, _, _, _)
\* the mutant breaks before a word that fills the line exactly
CellWordsAcc_strict(words, available_width, wrapped_lines, current_line, current_width) ==
    IF words = <<>>
    THEN IF current_line # <<>> THEN Append(wrapped_lines, current_line) ELSE wrapped_lines
    ELSE LET word == Head(words)
             word_width == _get_string_width(word)
         IN  IF current_width + word_width < available_width
             THEN CellWordsAcc_strict(Tail(words), available_width, wrapped_lines,
                                      Append(current_line, word), current_width + word_width)
             ELSE CellWordsAcc_strict(Tail(words), available_width,
                                      IF current_line # <<>>
                                      THEN Append(wrapped_lines, current_line)
                                      ELSE wrapped_lines,
                                      <<word>>, word_width)

RECURSIVE CellWordsAcc(_, _, _, _, _)
CellWordsAcc(words, available_width, wrapped_lines, current_line, current_width) ==
    IF words = <<>>
    THEN IF current_line # <<>> THEN Append(wrapped_lines, current_line) ELSE wrapped_lines
    ELSE LET word == Head(words)
             word_width == _get_string_width(word)
         IN  IF current_width + word_width <= available_width
             THEN CellWordsAcc(Tail(words), available_width, wrapped_lines,
                               Append(current_line, word), current_width + word_width)
             ELSE CellWordsAcc(Tail(words), available_width,
                               IF current_line # <<>>
                               THEN Append(wrapped_lines, current_line)
                               ELSE wrapped_lines,
                               <<word>>, word_width)

RECURSIVE CellLinesAcc(_, _, _)
CellLinesAcc(lines, available_width, wrapped_lines) ==
    IF lines = <<>> THEN wrapped_lines
    ELSE IF Head(lines) = <<>>
    THEN CellLinesAcc(Tail(lines), available_width, Append(wrapped_lines, <<>>))
    ELSE CellLinesAcc(Tail(lines), available_width,
                      CellWordsAcc(Segment(Head(lines)), available_width,
                                   wrapped_lines, <<>>, 0))

\* wrapped_lines of _process_cell_content, each line as the list of its units
ProcessCellUnits(cell_text, total_width) ==
    IF cell_text = <<>> THEN << <<>> >>
    ELSE LET w == CellLinesAcc(Split(cell_text, LF), total_width - CELL_PADDING, <<>>)
         IN  IF w # <<>> THEN w ELSE << <<>> >>

\* the mutant strips every line, as the paragraph wrapper does
_process_cell_content_stripped(cell_text, total_width) ==
    LET u == ProcessCellUnits(cell_text, total_width)
    IN  [i \in 1..Len(u) |-> Strip(Concat(u[i]))]

_process_cell_content(cell_text, total_width) ==
    LET u == ProcessCellUnits(cell_text, total_width)
    IN  [i \in 1..Len(u) |-> Concat(u[i])]

(***************************************************************************)
(* _clean_text (core.py:72-95): strip every line, merge runs of empty      *)
(* lines into one.                                                         *)
(***************************************************************************)
RECURSIVE CleanLinesAcc(_, _, _)
CleanLinesAcc(cleaned_lines, result_lines, prev_empty) ==
    IF cleaned_lines = <<>> THEN result_lines
    ELSE LET line == Head(cleaned_lines)
         IN  IF line = <<>>
             THEN CleanLinesAcc(Tail(cleaned_lines),
                                IF ~prev_empty THEN Append(result_lines, line)
                                ELSE result_lines,
                                TRUE)
             ELSE CleanLinesAcc(Tail(cleaned_lines), Append(result_lines, line), FALSE)

_clean_text(t) ==
    IF t = <<>> THEN <<>>
    ELSE LET lines == Split(t, LF)
             cleaned_lines == [i \in 1..Len(lines) |-> Strip(lines[i])]
         IN  JoinWith(CleanLinesAcc(cleaned_lines, <<>>, FALSE), <<LF>>)

(***************************************************************************)
(* Merge resolver (core.py:241-294).  A raw cell is                        *)
(* [text, vMerge, gridSpan]: vMerge is Absent, "restart" or "continue"     *)
(* (any value but "restart"), gridSpan is None or Some(span).  A table     *)
(* is the sequence of its rows, a row the sequence of its cells; row_idx   *)
(* and col_idx count from 0 as in the source.  current_table is the        *)
(* extractor's field the scans read.                                       *)
(***************************************************************************)
\* What a call that may raise returns: exc is the exception's kind, or Absent
\* with the value returned.
Raised(kind) == [exc |-> kind]
Returned(v) == [exc |-> Absent, val |-> v]
IsRaised(v) == v.exc # Absent

\* the mutant leaves out the comparison of the two texts
TextCompatible_empty_only(current_text, other_text) ==
    \/ current_text = <<>>
    \/ other_text = <<>>

\* not current_text or not other_text or current_text == other_text
TextCompatible(current_text, other_text) ==
    \/ current_text = <<>>
    \/ other_text = <<>>
    \/ current_text = other_text

RECURSIVE ScanDown(_, _, _, _, _)
\* the loop of the "restart" branch (core.py:253-269)
ScanDown(ct, current_text, col_idx, current_row, vspan) ==
    IF current_row >= Len(ct) THEN Returned(vspan)
    ELSE IF col_idx >= Len(ct[current_row + 1]) THEN Raised("IndexError")
    ELSE LET next_cell == ct[current_row + 1][col_idx + 1]
             next_text == Strip(next_cell.text)
             should_merge == /\ next_cell.vMerge # Absent
                             /\ next_cell.vMerge # "restart"
                             /\ TextCompatible(current_text, next_text)
         IN  IF ~should_merge THEN Returned(vspan)
             ELSE ScanDown(ct, current_text, col_idx, current_row + 1, vspan + 1)

RECURSIVE ScanUp(_, _, _, _)
\* the loop of the "continue" branch (core.py:272-292)
ScanUp(ct, current_text, col_idx, current_row) ==
    IF current_row < 0 THEN Returned(1)
    ELSE IF current_row >= Len(ct) \/ col_idx >= Len(ct[current_row + 1])
    THEN Raised("IndexError")
    ELSE LET prev_cell == ct[current_row + 1][col_idx + 1]
             prev_text == Strip(prev_cell.text)
         IN  IF /\ prev_cell.vMerge = "restart"
                /\ TextCompatible(current_text, prev_text)
             THEN Returned(0)
             ELSE ScanUp(ct, current_text, col_idx, current_row - 1)

_get_merged_cell_info(ct, cell, row_idx, col_idx) ==
    LET hspan == IF cell.gridSpan # None THEN cell.gridSpan[1] ELSE 1
        current_text == Strip(cell.text)
        v == IF cell.vMerge = Absent THEN Returned(1)
             ELSE IF ct = None THEN Raised("AttributeError")
             ELSE IF cell.vMerge = "restart"
             THEN ScanDown(ct[1], current_text, col_idx, row_idx + 1, 1)
             ELSE ScanUp(ct[1], current_text, col_idx, row_idx - 1)
    IN  IF IsRaised(v) THEN v ELSE Returned([vspan |-> v.val, hspan |-> hspan])

(***************************************************************************)
(* Data collection (core.py:407-449).  A cell of table_data is the dict of *)
(* the source as a record; the two keys the source adds later              *)
(* (available_width, merged_from) are None until they are set.             *)
(***************************************************************************)
RECURSIVE MaxOf(_)
\* max(seq) of a non-empty sequence of integers
MaxOf(seq) ==
    IF Len(seq) = 1 THEN seq[1] ELSE Max2(Head(seq), MaxOf(Tail(seq)))

CellData(cell_text, lines, hspan, vspan, needs_double_width, max_line_width) ==
    [text |-> cell_text, lines |-> lines, hspan |-> hspan, vspan |-> vspan,
     needs_double_width |-> needs_double_width, max_line_width |-> max_line_width,
     available_width |-> None, merged_from |-> None]

\* the dict appended while len(row_data) < max_cols (core.py:438-445)
PaddingCell == CellData(<<>>, << <<>> >>, 1, 1, FALSE, 0)

RECURSIVE CollectCells(_, _, _, _, _)
\* the inner loop of _collect_table_data over one row (core.py:414-435)
CollectCells(ct, row, row_idx, col_idx, row_data) ==
    IF col_idx >= Len(row) THEN Returned(row_data)
    ELSE LET cell == row[col_idx + 1]
             info == _get_merged_cell_info(ct, cell, row_idx, col_idx)
         IN  IF IsRaised(info) THEN info
             ELSE IF cell.vMerge # Absent /\ cell.vMerge # "restart"
             THEN CollectCells(ct, row, row_idx, col_idx + 1, row_data)
             ELSE LET cell_text == _clean_text(cell.text)
                      original_lines == Split(cell_text, LF)
                      line_widths == [i \in 1..Len(original_lines) |->
                                         _get_string_width(original_lines[i])]
                      max_line_width == MaxOf(line_widths)
                      needs_double_width == Len(original_lines) - 1 >= NEWLINE_THRESHOLD
                  IN  CollectCells(ct, row, row_idx, col_idx + 1,
                                   Append(row_data,
                                          CellData(cell_text, original_lines, info.val.hspan,
                                                   info.val.vspan, needs_double_width,
                                                   max_line_width)))

\* while len(row_data) < max_cols: row_data.append(...)
PadRow(row_data, max_cols) ==
    [c \in 1..Max2(Len(row_data), max_cols) |->
        IF c <= Len(row_data) THEN row_data[c] ELSE PaddingCell]

RECURSIVE CollectRows(_, _, _, _, _)
CollectRows(ct, table, max_cols, row_idx, table_data) ==
    IF row_idx >= Len(table) THEN Returned(table_data)
    ELSE LET row_data == CollectCells(ct, table[row_idx + 1], row_idx, 0, <<>>)
         IN  IF IsRaised(row_data) THEN row_data
             ELSE CollectRows(ct, table, max_cols, row_idx + 1,
                              Append(table_data, PadRow(row_data.val, max_cols)))

\* returns [table_data, max_cols], or the exception a cell lookup raised
_collect_table_data(ct, table) ==
    LET max_cols == MaxOf([r \in 1..Len(table) |-> Len(table[r])])
        table_data == CollectRows(ct, table, max_cols, 0, <<>>)
    IN  IF IsRaised(table_data) THEN table_data
        ELSE Returned([table_data |-> table_data.val, max_cols |-> max_cols])

(***************************************************************************)
(* Column tiering (core.py:351-379).                                       *)
(***************************************************************************)
RECURSIVE SumRange(_, _, _)
\* sum(col_widths[i] for i in range(lo, hi))
SumRange(col_widths, lo, hi) ==
    IF lo >= hi THEN 0 ELSE col_widths[lo + 1] + SumRange(col_widths, lo + 1, hi)

\* the mutant falls back to the base width above the top tier
TierWidth_wide_to_base(width) ==
    IF width <= BASE_COLUMN_WIDTH THEN BASE_COLUMN_WIDTH
    ELSE IF width <= BASE_COLUMN_WIDTH * LEVEL_2_MULTIPLIER
    THEN BASE_COLUMN_WIDTH * LEVEL_2_MULTIPLIER
    ELSE IF width <= BASE_COLUMN_WIDTH * LEVEL_3_MULTIPLIER
    THEN BASE_COLUMN_WIDTH * LEVEL_3_MULTIPLIER
    ELSE BASE_COLUMN_WIDTH

RECURSIVE MaxContentWidth_every_cell(_, _, _)
\* the mutant lets the spanning cells count as well
MaxContentWidth_every_cell(table_data, col_idx, row) ==
    IF row > Len(table_data) THEN 0
    ELSE Max2(table_data[row][col_idx + 1].max_line_width,
              MaxContentWidth_every_cell(table_data, col_idx, row + 1))

\* the mutant puts a content as wide as a tier into the next tier
TierWidth_strict(width) ==
    IF width < BASE_COLUMN_WIDTH THEN BASE_COLUMN_WIDTH
    ELSE IF width < BASE_COLUMN_WIDTH * LEVEL_2_MULTIPLIER
    THEN BASE_COLUMN_WIDTH * LEVEL_2_MULTIPLIER
    ELSE BASE_COLUMN_WIDTH * LEVEL_3_MULTIPLIER

\* the tier of one column (core.py:363-371)
TierWidth(width) ==
    IF width <= BASE_COLUMN_WIDTH THEN BASE_COLUMN_WIDTH
    ELSE IF width <= BASE_COLUMN_WIDTH * LEVEL_2_MULTIPLIER
    THEN BASE_COLUMN_WIDTH * LEVEL_2_MULTIPLIER
    ELSE IF width <= BASE_COLUMN_WIDTH * LEVEL_3_MULTIPLIER
    THEN BASE_COLUMN_WIDTH * LEVEL_3_MULTIPLIER
    ELSE BASE_COLUMN_WIDTH * LEVEL_3_MULTIPLIER

RECURSIVE MaxContentWidth(_, _, _)
\* max_content_widths[col_idx] after the first loop (core.py:356-360)
MaxContentWidth(table_data, col_idx, row) ==
    IF row > Len(table_data) THEN 0
    ELSE LET cell_data == table_data[row][col_idx + 1]
             rest == MaxContentWidth(table_data, col_idx, row + 1)
         IN  IF cell_data.hspan = 1 THEN Max2(cell_data.max_line_width, rest) ELSE rest

\* returns [col_widths, table_data]: the third loop stores available_width in
\* every spanning cell (core.py:373-377)
_calculate_column_widths(table_data, max_cols) ==
    LET col_widths == [c \in 1..max_cols |->
                          TierWidth(MaxContentWidth(table_data, c - 1, 1))]
        Avail(col_idx, cell_data) ==
            SumRange(col_widths, col_idx, Min2(col_idx + cell_data.hspan, Len(col_widths)))
              - CELL_PADDING
    IN  [col_widths |-> col_widths,
         table_data |->
            [r \in 1..Len(table_data) |->
               [c \in 1..Len(table_data[r]) |->
                  IF table_data[r][c].hspan > 1
                  THEN [table_data[r][c] EXCEPT
                           !.available_width = Some(Avail(c - 1, table_data[r][c]))]
                  ELSE table_data[r][c]]]]

(***************************************************************************)
(* Cell wrapping (core.py:451-480).                                        *)
(***************************************************************************)
\* the mutant counts one border character too many
SpanWidth_plus_hspan(col_widths, col_idx, hspan) ==
    SumRange(col_widths, col_idx, Min2(col_idx + hspan, Len(col_widths))) + hspan

\* the width a cell is wrapped to and rendered in (core.py:390, 456, 479)
SpanWidth(col_widths, col_idx, hspan) ==
    SumRange(col_widths, col_idx, Min2(col_idx + hspan, Len(col_widths))) + (hspan - 1)

\* the mutant writes a ditto mark into the position
AbsorbedCell_ditto(hspan, row_idx, col_idx) ==
    [text |-> <<34>>, lines |-> << <<34>> >>, hspan |-> hspan, vspan |-> 0,
     needs_double_width |-> FALSE, max_line_width |-> 0,
     available_width |-> None, merged_from |-> <<row_idx, col_idx>>]

\* the dict written over every position under a vertical-merge origin
AbsorbedCell(hspan, row_idx, col_idx) ==
    [text |-> <<>>, lines |-> << <<>> >>, hspan |-> hspan, vspan |-> 0,
     needs_double_width |-> FALSE, max_line_width |-> 0,
     available_width |-> None, merged_from |-> <<row_idx, col_idx>>]

RECURSIVE WrapPass1(_, _, _, _)
\* the first pair of loops (core.py:453-470); table_data changes as it is walked
WrapPass1(table_data, col_widths, row_idx, col_idx) ==
    IF row_idx >= Len(table_data) THEN table_data
    ELSE IF col_idx >= Len(table_data[row_idx + 1])
    THEN WrapPass1(table_data, col_widths, row_idx + 1, 0)
    ELSE LET cell_data == table_data[row_idx + 1][col_idx + 1]
         IN  IF cell_data.vspan > 1
             THEN LET h_total_width == SpanWidth(col_widths, col_idx, cell_data.hspan)
                      wrapped == IF cell_data.text # <<>>
                                 THEN [cell_data EXCEPT !.lines =
                                         _process_cell_content(cell_data.text, h_total_width)]
                                 ELSE cell_data
                      last == Min2(row_idx + cell_data.vspan, Len(table_data))
                      td == [r \in 1..Len(table_data) |->
                               IF r - 1 = row_idx
                               THEN [table_data[r] EXCEPT ![col_idx + 1] = wrapped]
                               ELSE IF r - 1 > row_idx /\ r - 1 < last
                               THEN [table_data[r] EXCEPT ![col_idx + 1] =
                                       AbsorbedCell(cell_data.hspan, row_idx, col_idx)]
                               ELSE table_data[r]]
                  IN  WrapPass1(td, col_widths, row_idx, col_idx + 1)
             ELSE WrapPass1(table_data, col_widths, row_idx, col_idx + 1)

\* the second pair of loops (core.py:472-480)
WrapPass2(table_data, col_widths) ==
    [r \in 1..Len(table_data) |->
       [c \in 1..Len(table_data[r]) |->
          LET cell_data == table_data[r][c]
          IN  IF cell_data.vspan = 1
              THEN IF cell_data.text = <<>>
                   THEN [cell_data EXCEPT !.lines = << <<>> >>]
                   ELSE [cell_data EXCEPT !.lines =
                           _process_cell_content(cell_data.text,
                                                 SpanWidth(col_widths, c - 1, cell_data.hspan))]
              ELSE cell_data]]

_process_cell_wrapping(table_data, col_widths) ==
    WrapPass2(WrapPass1(table_data, col_widths, 0, 0), col_widths)

(***************************************************************************)
(* Rendering (core.py:381-405 and 482-515).                                *)
(***************************************************************************)
PLUS == 43          \* '+'
DASH == 45          \* '-'
BAR == 124          \* '|'

RECURSIVE FormatRowAcc_char_count(_, _, _, _, _)
\* the mutant pads by the number of characters
FormatRowAcc_char_count(row_data, col_widths, line_idx, col_idx, row_content) ==
    IF col_idx >= Len(row_data) THEN row_content
    ELSE LET cell_data == row_data[col_idx + 1]
             hspan == cell_data.hspan
             total_width == SpanWidth(col_widths, col_idx, hspan)
             cell_text == IF cell_data.vspan = 0 THEN <<>>
                          ELSE IF line_idx < Len(cell_data.lines)
                          THEN cell_data.lines[line_idx + 1]
                          ELSE <<>>
             right_padding == total_width - Len(cell_text) - CELL_LEFT_PADDING
         IN  FormatRowAcc_char_count(row_data, col_widths, line_idx, col_idx + hspan,
                          row_content \o Repeat(SP, CELL_LEFT_PADDING) \o cell_text
                            \o Repeat(SP, right_padding) \o <<BAR>>)

RECURSIVE FormatRowAcc(_, _, _, _, _)
FormatRowAcc(row_data, col_widths, line_idx, col_idx, row_content) ==
    IF col_idx >= Len(row_data) THEN row_content
    ELSE LET cell_data == row_data[col_idx + 1]
             hspan == cell_data.hspan
             total_width == SpanWidth(col_widths, col_idx, hspan)
             cell_text == IF cell_data.vspan = 0 THEN <<>>
                          ELSE IF line_idx < Len(cell_data.lines)
                          THEN cell_data.lines[line_idx + 1]
                          ELSE <<>>
             content_width == _get_string_width(cell_text)
             left_padding == CELL_LEFT_PADDING
             right_padding == total_width - content_width - left_padding
         IN  FormatRowAcc(row_data, col_widths, line_idx, col_idx + hspan,
                          row_content \o Repeat(SP, left_padding) \o cell_text
                            \o Repeat(SP, right_padding) \o <<BAR>>)

_format_table_row(row_data, col_widths, line_idx) ==
    FormatRowAcc(row_data, col_widths, line_idx, 0, <<BAR>>)

\* separator = '+' followed by '-' * width + '+' for every column
Separator(col_widths) ==
    <<PLUS>> \o Concat([c \in 1..Len(col_widths) |->
                           Repeat(DASH, col_widths[c]) \o <<PLUS>>])

\* max_lines of one row (core.py:491-494)
MaxLines(row_data) ==
    MaxOf(<<1>> \o [c \in 1..Len(row_data) |->
                      IF row_data[c].vspan # 0 THEN Len(row_data[c].lines) ELSE 1])

\* one row with the lines of its non-absorbed cells filled up to max_lines
PadLines(row_data) ==
    [c \in 1..Len(row_data) |->
       IF row_data[c].vspan # 0
       THEN [row_data[c] EXCEPT !.lines =
               LET l == IF @ = <<>> THEN << <<>> >> ELSE @
               IN  l \o [i \in 1..(MaxLines(row_data) - Len(l)) |-> <<>>]]
       ELSE row_data[c]]

\* the mutant emits the separator before the first row only
BorderBefore_first_only(row_data, row_idx) == row_idx = 0

\* the mutant does not look for an origin in the row
BorderBefore_no_origin(row_data, row_idx) ==
    \/ row_idx = 0
    \/ ~ \E c \in 1..Len(row_data) : row_data[c].vspan = 0

\* whether the separator is emitted before row row_idx (core.py:503-506)
BorderBefore(row_data, row_idx) ==
    \/ row_idx = 0
    \/ ~ \E c \in 1..Len(row_data) : row_data[c].vspan = 0
    \/ \E c \in 1..Len(row_data) : row_data[c].vspan > 1

RECURSIVE RowLines(_, _, _, _)
RowLines(row_data, col_widths, line_idx, max_lines) ==
    IF line_idx >= max_lines THEN <<>>
    ELSE <<_format_table_row(row_data, col_widths, line_idx)>>
           \o RowLines(row_data, col_widths, line_idx + 1, max_lines)

RECURSIVE TableLines(_, _, _)
\* the list `result` before the closing separator
TableLines(table_data, col_widths, row_idx) ==
    IF row_idx >= Len(table_data) THEN <<>>
    ELSE LET row_data == PadLines(table_data[row_idx + 1])
         IN  (IF BorderBefore(row_data, row_idx) THEN <<Separator(col_widths)>> ELSE <<>>)
               \o RowLines(row_data, col_widths, 0, MaxLines(row_data))
               \o TableLines(table_data, col_widths, row_idx + 1)

FENCE_OPEN == <<96, 96, 96, 116, 101, 120, 116, 10>>      \* "```text\n"
FENCE_CLOSE == <<96, 96, 96, 10, 10>>                      \* "```\n\n"

\* returns [lines, out, table_data]: the list `result`, the returned string and
\* table_data with the cells' lines filled up
_generate_table_string(table_data, col_widths) ==
    LET lines == Append(TableLines(table_data, col_widths, 0), Separator(col_widths))
        ascii_table == JoinWith(lines, <<LF>>) \o <<LF>>
    IN  [lines |-> lines,
         out |-> FENCE_OPEN \o ascii_table \o FENCE_CLOSE,
         table_data |-> [r \in 1..Len(table_data) |-> PadLines(table_data[r])]]

(***************************************************************************)
(* _process_table (core.py:517-534).  current_table is the extractor's     *)
(* field, written before the grid is collected.  Returns the string and    *)
(* the field's new value.                                                  *)
(***************************************************************************)
TABLE_FAILED == <<12304, 34920, 26684, 22788, 29702, 22833, 36133, 12305, 10>>

\* the mutant keeps the first table the extractor saw
CurrentTableAfter_first(ct, table) == IF ct = None THEN Some(table) ELSE ct

\* self.current_table = table
CurrentTableAfter(ct, table) == Some(table)

\* except Exception: every exception kind of the model is an Exception
ExceptionKinds ==
    {"IndexError", "AttributeError", "KeyError", "FileNotFoundError",
     "ValueError", "UnboundLocalError"}

\* the mutant catches the provider's corrupted references only
ExceptException_keyerror(kind) == kind = "KeyError"

ExceptException(kind) == kind \in ExceptionKinds

\* the except branch, entered with the field as the try block left it
TableFailure(kind, ct) ==
    IF ExceptException(kind)
    THEN [out |-> TABLE_FAILED, exc |-> Absent, current_table |-> ct]
    ELSE [out |-> <<>>, exc |-> kind, current_table |-> ct]

\* Each stage of _process_table is computed once and handed on as a value:
\* CHOOSE r \in {F(x) : x \in {e}} : TRUE is F(e) with e evaluated once.

\* self._process_cell_wrapping(table_data, col_widths);
\* result = self._generate_table_string(table_data, col_widths)
TableAfterWidths(ct1, cw) ==
    CHOOSE r \in
        {[out |-> _generate_table_string(wrapped, cw.col_widths).out,
          exc |-> Absent, current_table |-> ct1] :
            wrapped \in {_process_cell_wrapping(cw.table_data, cw.col_widths)}} :
        TRUE

\* col_widths = self._calculate_column_widths(table_data, max_cols), unless
\* the collection raised
TableAfterCollect(ct1, collected) ==
    IF IsRaised(collected) THEN TableFailure(collected.exc, ct1)
    ELSE CHOOSE r \in
             {TableAfterWidths(ct1, cw) :
                 cw \in {_calculate_column_widths(collected.val.table_data,
                                                  collected.val.max_cols)}} :
             TRUE

\* table_data, max_cols = self._collect_table_data(table)
TableAfterCurrent(ct1, table) ==
    CHOOSE r \in
        {TableAfterCollect(ct1, collected) :
            collected \in {_collect_table_data(ct1, table)}} :
        TRUE

\* rows_fault is None, or Some(kind) when reading table.rows raises
_process_table(ct, table, rows_fault) ==
    IF rows_fault # None THEN TableFailure(rows_fault[1], ct)
    ELSE IF table = <<>> THEN [out |-> <<LF>>, exc |-> Absent, current_table |-> ct]
    ELSE CHOOSE r \in
             {TableAfterCurrent(ct1, table) :
                 ct1 \in {CurrentTableAfter(ct, table)}} :
             TRUE

(***************************************************************************)
(* The block formatter (core.py:97-157, 214-238): what str.lower, the `in` *)
(* test on strings, int() of a character, str.replace and the regular      *)
(* expressions of the source do on code points.                            *)
(***************************************************************************)
HASH == 35
LPAREN == 40
RPAREN == 41
DOT == 46
DIGIT_0 == 48
DIGIT_9 == 57
EQUALS == 61
LBRACKET == 91
RBRACKET == 93
FULL_LPAREN == 65288
FULL_RPAREN == 65289

\* HEADING_PREFIX, and the literals of the f-strings
HEADING_PREFIX == <<HASH>>
STR_heading == <<104, 101, 97, 100, 105, 110, 103>>
STR_cmd == <<99, 109, 100>>
ANCHOR_OPEN == <<60, 97, 32, 105, 100, 61, 34>>
ANCHOR_CLOSE == <<34, 62, 60, 47, 97, 62, LF>>
CMD_ANCHOR == <<99, 109, 100, DASH>>
SEC_ANCHOR == <<115, 101, 99, DASH>>
CMD_TAG_OPEN == <<SP, LBRACKET, 99, 109, 100, EQUALS>>
LEVEL_3_PREFIX == <<HASH, HASH, HASH, SP>>

\* str.lower, on the letters A-Z
LowerChar(c) == IF c \in 65..90 THEN c + 32 ELSE c

Lower(s) == [i \in 1..Len(s) |-> LowerChar(s[i])]

\* sub in s
Contains(s, sub) ==
    \E i \in 1..(Len(s) - Len(sub) + 1) : SubSeq(s, i, i + Len(sub) - 1) = sub

\* \d of the regular expressions and the digits int() accepts
IsDigit(c) == c \in DIGIT_0..DIGIT_9

\* \w: letters, digits, the underscore, and the ideographs
IsWordChar(c) ==
    \/ c \in 65..90
    \/ c \in 97..122
    \/ IsDigit(c)
    \/ c = 95
    \/ c \in 19968..40959

\* int(digits)
RECURSIVE ParseIntAcc(_, _, _)
ParseIntAcc(s, i, n) ==
    IF i > Len(s) THEN n ELSE ParseIntAcc(s, i + 1, n * 10 + (s[i] - DIGIT_0))

ParseInt(s) == ParseIntAcc(s, 1, 0)

\* str(n) for n >= 0
RECURSIVE Decimal(_)
Decimal(n) ==
    IF n < 10 THEN <<DIGIT_0 + n>> ELSE Decimal(n \div 10) \o <<DIGIT_0 + (n % 10)>>

\* the mutant keeps three digits only
Format03d_last3(n) ==
    LET d == Decimal(n % 1000)
    IN  Repeat(DIGIT_0, Max2(0, 3 - Len(d))) \o d

\* f"{n:03d}"
Format03d(n) ==
    LET d == Decimal(n)
    IN  Repeat(DIGIT_0, Max2(0, 3 - Len(d))) \o d

\* text.replace('（', '(').replace('）', ')')
ReplaceParens(s) ==
    [i \in 1..Len(s) |-> IF s[i] = FULL_LPAREN THEN LPAREN
                         ELSE IF s[i] = FULL_RPAREN THEN RPAREN
                         ELSE s[i]]

\* the index after the run of characters of class P(_) that starts at i
RECURSIVE SkipSpaces(_, _)
SkipSpaces(s, i) ==
    IF i <= Len(s) /\ IsSpace(s[i]) THEN SkipSpaces(s, i + 1) ELSE i

RECURSIVE SkipDigits(_, _)
SkipDigits(s, i) ==
    IF i <= Len(s) /\ IsDigit(s[i]) THEN SkipDigits(s, i + 1) ELSE i

\* s has the letters c, m, d in any case at i
CmdAt(s, i) == i + 2 <= Len(s) /\ Lower(SubSeq(s, i, i + 2)) = STR_cmd

\* \b before i and after j
BoundaryBefore(s, i) == i = 1 \/ ~IsWordChar(s[i - 1])

BoundaryAfter(s, j) == j = Len(s) \/ ~IsWordChar(s[j + 1])

\* re.sub(r'\bCMD\b', 'cmd', s, flags=re.I)
RECURSIVE SubCmdAcc(_, _, _)
SubCmdAcc(s, i, acc) ==
    IF i > Len(s) THEN acc
    ELSE IF CmdAt(s, i) /\ BoundaryBefore(s, i) /\ BoundaryAfter(s, i + 2)
         THEN SubCmdAcc(s, i + 3, acc \o STR_cmd)
         ELSE SubCmdAcc(s, i + 1, Append(acc, s[i]))

SubCmd(s) == SubCmdAcc(s, 1, <<>>)

\* cmd\s*=\s*(\d+) matched at i: the record of group 1 and the index after
\* the match, or None
MatchCmdAt(s, i) ==
    IF ~CmdAt(s, i) THEN None
    ELSE LET e == SkipSpaces(s, i + 3)
         IN  IF e > Len(s) \/ s[e] # EQUALS THEN None
             ELSE LET d == SkipSpaces(s, e + 1)
                      z == SkipDigits(s, d)
                  IN  IF z = d THEN None
                      ELSE Some([group1 |-> SubSeq(s, d, z - 1), end |-> z])

\* re.search(r'cmd\s*=\s*(\d+)', s, flags=re.I): group 1 of the leftmost
\* match, or None
RECURSIVE SearchCmdFrom(_, _)
SearchCmdFrom(s, i) ==
    IF i > Len(s) THEN None
    ELSE LET m == MatchCmdAt(s, i)
         IN  IF m # None THEN Some(m[1].group1) ELSE SearchCmdFrom(s, i + 1)

SearchCmd(s) == SearchCmdFrom(s, 1)

\* re.search(r'\[\s*cmd\s*=\s*\d+\s*\]', s, flags=re.I)
StandardTagAt(s, i) ==
    /\ s[i] = LBRACKET
    /\ LET m == MatchCmdAt(s, SkipSpaces(s, i + 1))
       IN  /\ m # None
           /\ LET r == SkipSpaces(s, m[1].end)
              IN  r <= Len(s) /\ s[r] = RBRACKET

\* the mutant knows the tag in its canonical spelling only
HasStandardTag_no_spaces(s) == Contains(Lower(s), <<LBRACKET>> \o STR_cmd \o <<EQUALS>>)

\* re.search(r'\[\s*cmd\s*=\s*\d+\s*\]', s, flags=re.I)
HasStandardTag(s) == \E i \in 1..Len(s) : StandardTagAt(s, i)

\* re.match(r'^\s*\d+\.\d+(?:\.\d+)?\s*\([Cc][Mm][Dd]\s*=\s*\d+\)', s)
TagInParensAt(s, i) ==
    /\ i <= Len(s)
    /\ s[i] = LPAREN
    /\ LET m == MatchCmdAt(s, i + 1)
       IN  /\ m # None
           /\ m[1].end <= Len(s)
           /\ s[m[1].end] = RPAREN

MatchesCmdPattern(s) ==
    LET a == SkipSpaces(s, 1)
        b == SkipDigits(s, a)
        c == SkipDigits(s, b + 1)
        d == SkipDigits(s, c + 1)
    IN  /\ b > a
        /\ b <= Len(s) /\ s[b] = DOT
        /\ c > b + 1
        /\ \/ /\ c <= Len(s) /\ s[c] = DOT
              /\ d > c + 1
              /\ TagInParensAt(s, SkipSpaces(s, d))
           \/ TagInParensAt(s, SkipSpaces(s, c))

\* hashlib.sha1(norm_text.encode('utf-8')).hexdigest()[:8]: eight
\* hexadecimal digits computed from the whole text.  SHA-1 itself is not
\* computed; two 16-bit polynomial hashes stand for it.
HexDigit(n) == IF n < 10 THEN DIGIT_0 + n ELSE 97 + (n - 10)

Hex4(n) ==
    <<HexDigit(n \div 4096), HexDigit((n \div 256) % 16),
      HexDigit((n \div 16) % 16), HexDigit(n % 16)>>

RECURSIVE PolyHash(_, _, _, _)
PolyHash(s, i, mult, h) ==
    IF i > Len(s) THEN h ELSE PolyHash(s, i + 1, mult, (h * mult + s[i]) % 65536)

Digest8(s) == Hex4(PolyHash(s, 1, 31, 7)) \o Hex4(PolyHash(s, 1, 37, 11))

\* the normalisation both title processors start with
NormText(t) == SubCmd(ReplaceParens(t))

\* anchor_id of a normalised title text
AnchorId(norm_text) ==
    LET cmd_match == SearchCmd(norm_text)
    IN  IF cmd_match # None
        THEN CMD_ANCHOR \o Format03d(ParseInt(cmd_match[1]))
        ELSE SEC_ANCHOR \o Digest8(norm_text)

\* norm_text as it is printed: the canonical tag is appended when a command
\* number is found and no [cmd=N] is there
TaggedText(norm_text) ==
    LET cmd_match == SearchCmd(norm_text)
    IN  IF cmd_match # None /\ ~HasStandardTag(norm_text)
        THEN norm_text \o CMD_TAG_OPEN \o Format03d(ParseInt(cmd_match[1]))
                       \o <<RBRACKET>>
        ELSE norm_text

AnchorLine(norm_text) == ANCHOR_OPEN \o AnchorId(norm_text) \o ANCHOR_CLOSE

\* level_num of _process_heading: None when the style is no heading style or
\* its name does not end in a digit
LevelNum(style_name) ==
    LET level == Lower(style_name)
    IN  IF Contains(level, STR_heading) /\ IsDigit(level[Len(level)])
        THEN Some(level[Len(level)] - DIGIT_0)
        ELSE None

\* a paragraph is [text |-> string, style |-> None or Some(style name)]
Paragraph(t, style) == [text |-> t, style |-> style]

IsHeadingStyle(paragraph) ==
    /\ paragraph.style # None
    /\ paragraph.style[1] # <<>>
    /\ Contains(Lower(paragraph.style[1]), STR_heading)

_process_heading(paragraph) ==
    LET t == Strip(paragraph.text)
        level_num == LevelNum(paragraph.style[1])
        prefix == IF level_num # None /\ level_num[1] # 0
                  THEN Concat(Repeat(HEADING_PREFIX, level_num[1])) \o <<SP>>
                  ELSE HEADING_PREFIX \o <<SP>>
        norm_text == NormText(t)
    IN  IF t = <<>> THEN <<>>
        ELSE AnchorLine(norm_text) \o prefix \o TaggedText(norm_text) \o <<LF>>

_process_pseudo_cmd_title(t) ==
    LET norm_text == NormText(t)
    IN  AnchorLine(norm_text) \o LEVEL_3_PREFIX \o TaggedText(norm_text)
            \o <<LF, LF>>

\* the mutant wraps to text_width and leaves the indent out of the account
_process_normal_paragraph_full_width(paragraph, text_width, text_indent) ==
    IF paragraph.text = <<>> THEN <<LF>>
    ELSE _wrap_text_by_width(Strip(paragraph.text),
                             text_width + _get_string_width(text_indent), text_indent)
           \o <<LF, LF>>

_process_normal_paragraph(paragraph, text_width, text_indent) ==
    LET t == Strip(paragraph.text)
    IN  IF paragraph.text = <<>> THEN <<LF>>
        ELSE IF IsHeadingStyle(paragraph)
        THEN IF LevelNum(paragraph.style[1]) # None
             THEN _process_heading(paragraph) \o <<LF>>
             ELSE HEADING_PREFIX \o <<SP>> \o t \o <<LF, LF>>
        ELSE IF MatchesCmdPattern(t)
        THEN _process_pseudo_cmd_title(t)
        ELSE _wrap_text_by_width(t, text_width, text_indent) \o <<LF, LF>>

(***************************************************************************)
(* The document walker extract_content (core.py:536-607).  A document is   *)
(* the body the provider serves, a sequence of elements                    *)
(*   [tag |-> "p", paragraph |-> ...], [tag |-> "tbl", table |-> ...] or   *)
(*   [tag |-> "sectPr"],                                                   *)
(* and the place where the provider raises, if it does: fault is None or   *)
(* Some([at |-> i, kind |-> k]), at = 0 for Document(docx_path) itself and *)
(* at = i for the first read of the i-th element's paragraph or table.     *)
(***************************************************************************)
DEFAULT_TEXT_WIDTH == 100
DEFAULT_INDENT == <<SP, SP, SP, SP>>

ParagraphElement(p) == [tag |-> "p", paragraph |-> p]
TableElement(t) == [tag |-> "tbl", table |-> t]
OtherElement == [tag |-> "sectPr"]

Document(body, fault) == [body |-> body, fault |-> fault]

\* element.tag.endswith('p'), element.tag.endswith('tbl')
IsParagraphTag(element) == element.tag = "p"

IsTableTag(element) == element.tag = "tbl"

\* list(doc.paragraphs), list(doc.tables)
doc_paragraphs(body) ==
    LET ps == SelectSeq(body, IsParagraphTag)
    IN  [i \in 1..Len(ps) |-> ps[i].paragraph]

doc_tables(body) ==
    LET ts == SelectSeq(body, IsTableTag)
    IN  [i \in 1..Len(ts) |-> ts[i].table]

\* the kind the provider raises at position i, or None
FaultAt(d, i) ==
    IF d.fault # None /\ d.fault[1].at = i THEN Some(d.fault[1].kind) ELSE None

\* the dispatch on the paragraph's style (core.py:556-559)
ParagraphChunk(paragraph) ==
    IF IsHeadingStyle(paragraph)
    THEN _process_heading(paragraph)
    ELSE _process_normal_paragraph(paragraph, DEFAULT_TEXT_WIDTH, DEFAULT_INDENT)

\* the mutant does not move on to the next table
NextTIndex_stuck(t) == t

\* t_index += 1
NextTIndex(t) == t + 1

\* the progress lines (core.py:568-584): what happens to the extractor's
\* markers and to the log after `processed` of `total` elements
ProgressStep(marks, lg, processed, total) ==
    IF 4 * processed >= total /\ 25 \notin marks
    THEN [marks |-> marks \cup {25}, log |-> Append(lg, 25)]
    ELSE IF 2 * processed >= total /\ 50 \notin marks
    THEN [marks |-> marks \cup {50}, log |-> Append(lg, 50)]
    ELSE IF 4 * processed >= 3 * total /\ 75 \notin marks
    THEN [marks |-> marks \cup {75}, log |-> Append(lg, 75)]
    ELSE IF processed = total
    THEN [marks |-> {}, log |-> Append(lg, 100)]
    ELSE [marks |-> marks, log |-> lg]

\* the extractor's fields and the locals of one call
Extractor(ct, marks) == [current_table |-> ct, progress_marks |-> marks]

NewFrame ==
    [content |-> <<>>, p_index |-> 0, t_index |-> 0, processed_elements |-> 0,
     log |-> <<>>]

\* content.append(self._process_table(tables[t_index])) when the element
\* is a table: what the call returns and does to the extractor
TableChunk(self, frame, d) ==
    LET element == d.body[frame.processed_elements + 1]
    IN  IF IsTableTag(element) /\ frame.t_index < Len(doc_tables(d.body))
        THEN CHOOSE r \in
                 {_process_table(ct, table, fault) :
                     ct \in {self.current_table},
                     table \in {doc_tables(d.body)[frame.t_index + 1]},
                     fault \in {FaultAt(d, frame.processed_elements + 1)}} :
                 TRUE
        ELSE [out |-> <<>>, exc |-> Absent, current_table |-> self.current_table]

\* one turn of `for element in doc.element.body` (core.py:554-584), on the
\* element after the processed ones, t being what TableChunk gave.  raised
\* is Absent, or the kind of the exception that leaves the loop.
ElementResult(self, frame, d, t) ==
    LET i == frame.processed_elements + 1
        element == d.body[i]
        paragraphs == doc_paragraphs(d.body)
        tables == doc_tables(d.body)
        fault == FaultAt(d, i)
        raised == IF IsParagraphTag(element) /\ frame.p_index < Len(paragraphs)
                  THEN IF fault # None THEN fault[1] ELSE Absent
                  ELSE t.exc
        content1 ==
            IF IsParagraphTag(element) /\ frame.p_index < Len(paragraphs)
            THEN Append(frame.content,
                        ParagraphChunk(paragraphs[frame.p_index + 1]))
            ELSE IF IsTableTag(element) /\ frame.t_index < Len(tables)
            THEN Append(frame.content, t.out)
            ELSE frame.content
        p1 == IF IsParagraphTag(element) /\ frame.p_index < Len(paragraphs)
              THEN frame.p_index + 1 ELSE frame.p_index
        t1 == IF ~IsParagraphTag(element) /\ IsTableTag(element)
                 /\ frame.t_index < Len(tables)
              THEN NextTIndex(frame.t_index) ELSE frame.t_index
        progress == ProgressStep(self.progress_marks, frame.log, i, Len(d.body))
    IN  IF raised # Absent
        THEN [raised |-> raised,
              self |-> Extractor(t.current_table, self.progress_marks),
              frame |-> frame]
        ELSE [raised |-> Absent,
              self |-> Extractor(t.current_table, progress.marks),
              frame |-> [content |-> content1, p_index |-> p1, t_index |-> t1,
                         processed_elements |-> i, log |-> progress.log]]

ElementStep(self, frame, d) ==
    CHOOSE r \in {ElementResult(self, frame, d, t) :
                      t \in {TableChunk(self, frame, d)}} : TRUE

\* the mutant returns the partial content without looking at it
HandleError_always_partial(kind, content_local) ==
    IF kind = "FileNotFoundError" THEN Raised(kind)
    ELSE IF kind = "KeyError"
    THEN IF content_local = None THEN Raised("UnboundLocalError")
         ELSE Returned(Concat(content_local[1]))
    ELSE Raised(kind)

\* the except clauses (core.py:590-607); content_local is None while the
\* local `content` is unbound, Some(list) afterwards
HandleError(kind, content_local) ==
    IF kind = "FileNotFoundError" THEN Raised(kind)
    ELSE IF kind = "KeyError"
    THEN IF content_local = None THEN Raised("UnboundLocalError")
         ELSE IF content_local[1] # <<>>
         THEN Returned(Concat(content_local[1]))
         ELSE Raised(kind)
    ELSE Raised(kind)

\* the whole call, from the extractor's state before it
RECURSIVE WalkFrom(_, _, _)
WalkFrom(self, frame, d) ==
    IF frame.processed_elements = Len(d.body)
    THEN [outcome |-> Returned(Concat(frame.content)), self |-> self]
    ELSE CHOOSE w \in
             {IF r.raised # Absent
              THEN [outcome |-> HandleError(r.raised, Some(r.frame.content)),
                    self |-> r.self]
              ELSE WalkFrom(r.self, r.frame, d) :
                 r \in {ElementStep(self, frame, d)}} :
             TRUE

extract_content(self, d) ==
    IF FaultAt(d, 0) # None
    THEN [outcome |-> HandleError(FaultAt(d, 0)[1], None), self |-> self]
    ELSE WalkFrom(self, NewFrame, d)

(***************************************************************************)
(* The parts of the state a specification does not use stay as             *)
(* constructed.                                                            *)
(***************************************************************************)
WrapIdle ==
    /\ text = <<>>
    /\ available = 0
    /\ indent = <<>>
    /\ wrap_units = <<>>
    /\ wrap_out = <<>>
    /\ cell_units = <<>>
    /\ cell_lines = <<>>
    /\ wpc = "idle"

TableIdle ==
    /\ tbl = <<>>
    /\ current_table = None
    /\ spans = <<>>
    /\ tdata = <<>>
    /\ ncols = 0
    /\ widths = <<>>
    /\ out_lines = <<>>
    /\ result = <<>>
    /\ tpc = "idle"

AnchorIdle ==
    /\ titles = <<>>
    /\ title_out = <<>>

DocIdle ==
    /\ doc = <<>>
    /\ content = None
    /\ p_index = 0
    /\ t_index = 0
    /\ processed_elements = 0
    /\ progress_marks = {}
    /\ log = <<>>
    /\ outcome = None
    /\ dpc = "idle"

CalcIdle ==
    /\ config = None
    /\ engine = None
    /\ content_widths = <<>>
    /\ tier_widths = <<>>
    /\ wc_text = <<>>
    /\ wc_width = 0
    /\ span_tables = <<>>
    /\ span_widths = <<>>
    /\ legacy = None
    /\ cpc = "idle"

GuiIdle ==
    /\ processing = FALSE
    /\ threads = <<>>
    /\ requests = 0

(***************************************************************************)
(* The wrappers applied to one text.  The inputs are a text, an available  *)
(* width >= 0 and an indent; the paragraph wrapper is called with          *)
(* max_width = available + width(indent) and the cell wrapper with         *)
(* total_width = available + CELL_PADDING, so both wrap to `available`.    *)
(***************************************************************************)
WrapChars == {CH_a, SP, LF, CJK, IDSP}

WrapTexts == UNION {[1..n -> WrapChars] : n \in 0..MaxTextLen}

Indents == {<<>>, <<SP>>}

\* the names of the styles "Normal" and "Heading 2"
STYLE_Normal == <<78, 111, 114, 109, 97, 108>>
STYLE_Heading_2 == <<72, 101, 97, 100, 105, 110, 103, SP, 50>>

InitWrap ==
    /\ text \in WrapTexts
    /\ available \in 0..MaxWidth
    /\ indent \in Indents
    /\ wrap_units = <<>>
    /\ wrap_out = <<>>
    /\ cell_units = <<>>
    /\ cell_lines = <<>>
    /\ wpc = "start"
    /\ TableIdle
    /\ AnchorIdle
    /\ DocIdle
    /\ CalcIdle
    /\ GuiIdle

\* a call of _wrap_text_by_width(text, max_width, indent)
WrapTextByWidth ==
    /\ wpc = "start"
    /\ LET mw == available + _get_string_width(indent)
       IN  /\ wrap_units' = (IF text = <<>> THEN <<>>
                             ELSE WrapParagraphUnits(text, mw, indent))
           /\ wrap_out' = _wrap_text_by_width(text, mw, indent)
    /\ wpc' = "paragraph"
    /\ UNCHANGED <<text, available, indent, cell_units, cell_lines, tableVars, anchorVars, docVars, calcVars, guiVars>>

\* a call of _process_cell_content(text, total_width)
ProcessCellContent ==
    /\ wpc = "start"
    /\ cell_units' = ProcessCellUnits(text, available + CELL_PADDING)
    /\ cell_lines' = _process_cell_content(text, available + CELL_PADDING)
    /\ wpc' = "cell"
    /\ UNCHANGED <<text, available, indent, wrap_units, wrap_out, tableVars, anchorVars, docVars, calcVars, guiVars>>

\* a call of _process_normal_paragraph on a paragraph of style Normal, by an
\* extractor configured with text_width and text_indent (core.py:54-55)
WrapNormalParagraph ==
    /\ wpc = "start"
    /\ LET mw == available + _get_string_width(indent)
       IN  /\ wrap_units' = (IF Strip(text) = <<>> THEN <<>>
                             ELSE WrapParagraphUnits(Strip(text), mw, indent))
           /\ wrap_out' = _process_normal_paragraph(Paragraph(text, Some(STYLE_Normal)),
                                                    mw, indent)
    /\ wpc' = "normal"
    /\ UNCHANGED <<text, available, indent, cell_units, cell_lines, tableVars, anchorVars, docVars, calcVars, guiVars>>

NextWrap == WrapTextByWidth \/ ProcessCellContent \/ WrapNormalParagraph

SpecWrap == InitWrap /\ [][NextWrap]_vars

(***************************************************************************)
(* The merge resolver: _get_merged_cell_info called on every cell of a     *)
(* rectangular raw grid, as _collect_table_data calls it (core.py:415).    *)
(* The scans stay in the cell's own column, so the grids have one column.  *)
(* The grid is then rendered as _process_table renders it.                 *)
(***************************************************************************)
RawCell(t, vm, gs) == [text |-> t, vMerge |-> vm, gridSpan |-> gs]

MergeTexts == {<<>>, <<CH_x>>, <<CH_y>>}

MergeCells == {RawCell(t, vm, None) : t \in MergeTexts, vm \in {Absent, "restart", "continue"}}

MergeGrids == UNION {[1..n -> {<<c>> : c \in MergeCells}] : n \in 1..MaxMergeRows}

InitMerge ==
    /\ tbl \in MergeGrids
    /\ current_table = None
    /\ spans = <<>>
    /\ tdata = <<>>
    /\ ncols = 0
    /\ widths = <<>>
    /\ out_lines = <<>>
    /\ result = <<>>
    /\ tpc = "start"
    /\ WrapIdle
    /\ AnchorIdle
    /\ DocIdle
    /\ CalcIdle
    /\ GuiIdle

\* self.current_table = table, then the resolver on every cell
ResolveMerges ==
    /\ tpc = "start"
    /\ current_table' = Some(tbl)
    /\ spans' = [r \in 1..Len(tbl) |->
                   [c \in 1..Len(tbl[r]) |->
                      _get_merged_cell_info(Some(tbl), tbl[r][c], r - 1, c - 1).val.vspan]]
    /\ tpc' = "resolved"
    /\ UNCHANGED <<tbl, tdata, ncols, widths, out_lines, result, wrapVars, anchorVars, docVars, calcVars, guiVars>>

\* the rest of _process_table on the same grid (core.py:525-530); the lookups of
\* a one-column grid never raise
ProcessResolvedTable ==
    /\ tpc = "resolved"
    /\ \E collected \in {_collect_table_data(current_table, tbl)} :
       \E cw \in {_calculate_column_widths(collected.val.table_data,
                                            collected.val.max_cols)} :
       \E wrapped \in {_process_cell_wrapping(cw.table_data, cw.col_widths)} :
       \E g \in {_generate_table_string(wrapped, cw.col_widths)} :
          /\ tdata' = g.table_data
          /\ ncols' = collected.val.max_cols
          /\ widths' = cw.col_widths
          /\ out_lines' = g.lines
          /\ result' = g.out
    /\ tpc' = "done"
    /\ UNCHANGED <<tbl, current_table, spans, wrapVars, anchorVars, docVars, calcVars, guiVars>>

NextMerge == ResolveMerges \/ ProcessResolvedTable

SpecMerge == InitMerge /\ [][NextMerge]_vars

(***************************************************************************)
(* One table through _process_table, a step per stage (core.py:517-534). *)
(* A table is any sequence of rows of raw cells with at most MaxCells     *)
(* cells; its rows may differ in length.                                   *)
(***************************************************************************)
\* a word of 14 columns, then a line of 7 ideographs (14 columns): the column
\* gets the first tier, 15, and 13 columns to wrap to
WordAndWide == [i \in 1..22 |-> IF i <= 14 THEN CH_a ELSE IF i = 15 THEN LF ELSE CJK]
\* "aaaaaa aaaaaaa", 14 columns
TwoWords == [i \in 1..14 |-> IF i = 7 THEN SP ELSE CH_a]

TableCells ==
    { RawCell(<<CH_x>>, Absent, None),
      RawCell(<<CH_x>>, "restart", None),
      RawCell(<<>>, "continue", None),
      RawCell(<<CH_y>>, "continue", None),
      RawCell(WordAndWide, Absent, None),
      RawCell(TwoWords, Absent, Some(2)) }

RECURSIVE TablesOf(_)
\* the tables with exactly n cells
TablesOf(n) ==
    IF n = 0 THEN {<<>>}
    ELSE UNION {{<<row>> \o rest : row \in [1..k -> TableCells], rest \in TablesOf(n - k)}
                  : k \in 1..n}

TablesUpTo(m) == UNION {TablesOf(n) : n \in 0..m}

\* three rows of two cells without markers, the texts "x", "y" and "a"
T_PLAIN ==
    << <<RawCell(<<CH_x>>, Absent, None), RawCell(<<CH_y>>, Absent, None)>>,
       <<RawCell(<<CH_a>>, Absent, None), RawCell(<<CH_x>>, Absent, None)>>,
       <<RawCell(<<CH_y>>, Absent, None), RawCell(<<CH_a>>, Absent, None)>> >>

\* three rows of three cells: a merge of rows 0 and 1 in column 0 and a merge
\* that starts in row 1, column 2
T_STAIRS ==
    << <<RawCell(<<CH_x>>, "restart", None), RawCell(<<CH_x>>, Absent, None),
         RawCell(<<CH_x>>, Absent, None)>>,
       <<RawCell(<<>>, "continue", None), RawCell(<<CH_x>>, Absent, None),
         RawCell(<<CH_x>>, "restart", None)>>,
       <<RawCell(<<CH_x>>, Absent, None), RawCell(<<CH_x>>, Absent, None),
         RawCell(<<>>, "continue", None)>> >>

\* two columns: a cell of two lines, the first an ideograph, beside "x", and
\* below them one cell spanning both columns
T_WIDE ==
    << <<RawCell(<<CJK, LF, CH_a>>, Absent, None), RawCell(<<CH_x>>, Absent, None)>>,
       <<RawCell(TwoWords, Absent, Some(2))>> >>

\* a cell holding one word of n letters
WordCell(n) == RawCell(Repeat(CH_a, n), Absent, None)

\* four columns whose widest contents are 15, 30, 45 and 46 columns
T_TIERS ==
    << <<WordCell(15), WordCell(16), WordCell(45), WordCell(1)>>,
       <<WordCell(1), WordCell(30), WordCell(31), WordCell(46)>> >>

InitTable ==
    /\ tbl \in TablesUpTo(MaxCells) \cup {T_PLAIN, T_STAIRS, T_WIDE, T_TIERS}
    /\ current_table = None
    /\ spans = <<>>
    /\ tdata = <<>>
    /\ ncols = 0
    /\ widths = <<>>
    /\ out_lines = <<>>
    /\ result = <<>>
    /\ tpc = "start"
    /\ WrapIdle
    /\ AnchorIdle
    /\ DocIdle
    /\ CalcIdle
    /\ GuiIdle

\* if not table.rows: return "\n"
ProcessEmptyTable ==
    /\ tpc = "start"
    /\ tbl = <<>>
    /\ result' = <<LF>>
    /\ tpc' = "done"
    /\ UNCHANGED <<tbl, current_table, spans, tdata, ncols, widths,
                   out_lines, wrapVars, anchorVars, docVars, calcVars, guiVars>>

\* self.current_table = table; table_data, max_cols = self._collect_table_data(table)
\* and, when a cell lookup raises, the except branch of _process_table
CollectTableData ==
    /\ tpc = "start"
    /\ tbl # <<>>
    /\ current_table' = CurrentTableAfter(current_table, tbl)
    /\ LET collected == _collect_table_data(current_table', tbl)
       IN  IF IsRaised(collected)
           THEN /\ result' = TABLE_FAILED
                /\ tpc' = "failed"
                /\ UNCHANGED <<tdata, ncols>>
           ELSE /\ tdata' = collected.val.table_data
                /\ ncols' = collected.val.max_cols
                /\ tpc' = "collected"
                /\ UNCHANGED result
    /\ UNCHANGED <<tbl, spans, widths, out_lines, wrapVars, anchorVars, docVars, calcVars, guiVars>>

\* col_widths = self._calculate_column_widths(table_data, max_cols)
CalculateColumnWidths ==
    /\ tpc = "collected"
    /\ LET cw == _calculate_column_widths(tdata, ncols)
       IN  /\ widths' = cw.col_widths
           /\ tdata' = cw.table_data
    /\ tpc' = "widths"
    /\ UNCHANGED <<tbl, current_table, spans, ncols, out_lines, result, wrapVars, anchorVars, docVars, calcVars, guiVars>>

\* self._process_cell_wrapping(table_data, col_widths)
ProcessCellWrapping ==
    /\ tpc = "widths"
    /\ tdata' = _process_cell_wrapping(tdata, widths)
    /\ tpc' = "wrapped"
    /\ UNCHANGED <<tbl, current_table, spans, ncols, widths, out_lines, result,
                   wrapVars, anchorVars, docVars, calcVars, guiVars>>

\* result = self._generate_table_string(table_data, col_widths); return result
GenerateTableString ==
    /\ tpc = "wrapped"
    /\ LET g == _generate_table_string(tdata, widths)
       IN  /\ out_lines' = g.lines
           /\ result' = g.out
           /\ tdata' = g.table_data
    /\ tpc' = "done"
    /\ UNCHANGED <<tbl, current_table, spans, ncols, widths, wrapVars, anchorVars, docVars, calcVars, guiVars>>

NextTable ==
    \/ ProcessEmptyTable
    \/ CollectTableData
    \/ CalculateColumnWidths
    \/ ProcessCellWrapping
    \/ GenerateTableString

SpecTable == InitTable /\ [][NextTable]_vars

(***************************************************************************)
(* Two titles handed to the block formatter: heading paragraphs, and       *)
(* ordinary paragraphs of the form "1.1 (cmd=N)".                          *)
(***************************************************************************)

\* "1.1 ", "1.2 ", "A "
TitlePrefixes ==
    {<<49, DOT, 49, SP>>, <<49, DOT, 50, SP>>, <<65, SP>>}

\* "", "(cmd=7)", "(cmd = 007)", "（CMD = 07）", "(cmd=1007)", "(cmd=8)",
\* "[cmd=007]", "cmd"
TitleTags ==
    {<<>>,
     <<LPAREN, 99, 109, 100, EQUALS, 55, RPAREN>>,
     <<LPAREN, 99, 109, 100, SP, EQUALS, SP, 48, 48, 55, RPAREN>>,
     <<FULL_LPAREN, 67, 77, 68, SP, EQUALS, SP, 48, 55, FULL_RPAREN>>,
     <<LPAREN, 99, 109, 100, EQUALS, 49, 48, 48, 55, RPAREN>>,
     <<LPAREN, 99, 109, 100, EQUALS, 56, RPAREN>>,
     <<LBRACKET, 99, 109, 100, EQUALS, 48, 48, 55, RBRACKET>>,
     STR_cmd}

\* "", " x", " [cmd = 8]"
TitleSuffixes ==
    {<<>>, <<SP, CH_x>>, <<SP, LBRACKET, 99, 109, 100, SP, EQUALS, SP, 56, RBRACKET>>}

TitleTexts ==
    {p \o t \o s : p \in TitlePrefixes, t \in TitleTags, s \in TitleSuffixes}

\* a title is a paragraph the formatter gives an anchor
IsTitle(paragraph) ==
    \/ IsHeadingStyle(paragraph)
    \/ MatchesCmdPattern(Strip(paragraph.text))

Titles ==
    {p \in {Paragraph(t, Some(st)) : t \in TitleTexts,
                                     st \in {STYLE_Normal, STYLE_Heading_2}} :
        IsTitle(p)}

InitAnchor ==
    /\ titles \in Titles \X Titles
    /\ title_out = <<None, None>>
    /\ WrapIdle
    /\ TableIdle
    /\ DocIdle
    /\ CalcIdle
    /\ GuiIdle

\* content.append(self._process_heading(paragraph))
ProcessHeading ==
    \E k \in 1..2 :
        /\ title_out[k] = None
        /\ IsHeadingStyle(titles[k])
        /\ title_out' = [title_out EXCEPT ![k] = Some(_process_heading(titles[k]))]
        /\ UNCHANGED <<titles, wrapVars, tableVars, docVars, calcVars, guiVars>>

\* content.append(self._process_normal_paragraph(paragraph))
ProcessNormalParagraph ==
    \E k \in 1..2 :
        /\ title_out[k] = None
        /\ ~IsHeadingStyle(titles[k])
        /\ title_out' = [title_out EXCEPT ![k] =
               Some(_process_normal_paragraph(titles[k], DEFAULT_TEXT_WIDTH,
                                              DEFAULT_INDENT))]
        /\ UNCHANGED <<titles, wrapVars, tableVars, docVars, calcVars, guiVars>>

NextAnchor ==
    \/ ProcessHeading
    \/ ProcessNormalParagraph

SpecAnchor == InitAnchor /\ [][NextAnchor]_vars

(***************************************************************************)
(* extract_content called on one document after another, on one extractor  *)
(* (gui.py:641-716 reuses the instance for a batch).                       *)
(***************************************************************************)
\* "a b"
P_NORMAL == Paragraph(<<CH_a, SP, 98>>, Some(STYLE_Normal))

\* "A（CMD=7）" in a heading style
P_HEADING ==
    Paragraph(<<65, FULL_LPAREN, 67, 77, 68, EQUALS, 55, FULL_RPAREN>>,
              Some(STYLE_Heading_2))

\* one column, "x" merged down over an empty cell
T_MERGED ==
    <<<<RawCell(<<CH_x>>, "restart", None)>>,
      <<RawCell(<<>>, "continue", None)>>>>

\* a second row shorter than the first, under a merge origin
T_RAGGED ==
    <<<<RawCell(<<CH_x>>, Absent, None), RawCell(<<CH_x>>, "restart", None)>>,
      <<RawCell(<<CH_y>>, Absent, None)>>>>

\* a table without rows
T_EMPTY == <<>>

Elements ==
    {ParagraphElement(P_NORMAL), ParagraphElement(P_HEADING),
     TableElement(T_MERGED), TableElement(T_RAGGED), TableElement(T_EMPTY),
     OtherElement}

Bodies == UNION {[1..n -> Elements] : n \in 0..MaxBlocks}

\* what the provider raises: a corrupted internal reference, a missing file,
\* anything else
ProviderFaultKinds == {"KeyError", "FileNotFoundError", "ValueError"}

\* the documents that cannot be opened have no body to speak of
Unopenable ==
    {Document(<<>>, Some([at |-> 0, kind |-> k])) : k \in ProviderFaultKinds}

\* the provider serves the body and raises at the first read of a paragraph
\* or of a table, or not at all
ReadFaults(body) ==
    {None} \cup
    {Some([at |-> i, kind |-> k]) :
        i \in {j \in 1..Len(body) : body[j].tag \in {"p", "tbl"}},
        k \in ProviderFaultKinds}

Documents ==
    Unopenable \cup UNION {{Document(b, f) : f \in ReadFaults(b)} : b \in Bodies}

\* DocumentExtractor(), before the first call
InitDoc ==
    /\ DocIdle
    /\ WrapIdle
    /\ TableIdle
    /\ AnchorIdle
    /\ CalcIdle
    /\ GuiIdle

tableLocals == <<tbl, spans, tdata, ncols, widths, out_lines, result, tpc>>

\* doc = Document(docx_path); content = [] ... processed_elements = 0
OpenDocument ==
    /\ dpc = "open"
    /\ IF FaultAt(doc, 0) # None
       THEN /\ outcome' = Some(HandleError(FaultAt(doc, 0)[1], content))
            /\ dpc' = "done"
            /\ UNCHANGED content
       ELSE /\ content' = Some(NewFrame.content)
            /\ dpc' = "walk"
            /\ UNCHANGED outcome
    /\ UNCHANGED <<doc, p_index, t_index, processed_elements, progress_marks,
                   log, current_table, tableLocals, wrapVars, anchorVars, calcVars, guiVars>>

\* the body of the for loop on the next element, and the except clauses
\* when it raises
ProcessElement ==
    /\ dpc = "walk"
    /\ processed_elements < Len(doc.body)
    /\ \E r \in {ElementStep(Extractor(current_table, progress_marks),
                              [content |-> content[1], p_index |-> p_index,
                               t_index |-> t_index,
                               processed_elements |-> processed_elements,
                               log |-> log],
                              doc)} :
           /\ current_table' = r.self.current_table
           /\ progress_marks' = r.self.progress_marks
           /\ content' = Some(r.frame.content)
           /\ p_index' = r.frame.p_index
           /\ t_index' = r.frame.t_index
           /\ processed_elements' = r.frame.processed_elements
           /\ log' = r.frame.log
           /\ IF r.raised # Absent
              THEN /\ outcome' = Some(HandleError(r.raised, content'))
                   /\ dpc' = "done"
              ELSE UNCHANGED <<outcome, dpc>>
    /\ UNCHANGED <<doc, tableLocals, wrapVars, anchorVars, calcVars, guiVars>>

\* return ''.join(content)
ReturnContent ==
    /\ dpc = "walk"
    /\ processed_elements = Len(doc.body)
    /\ outcome' = Some(Returned(Concat(content[1])))
    /\ dpc' = "done"
    /\ UNCHANGED <<doc, content, p_index, t_index, processed_elements,
                   progress_marks, log, current_table, tableLocals, wrapVars,
                   anchorVars, calcVars, guiVars>>

\* extract_content(docx_path) is called on the extractor, fresh or used
CallExtractContent ==
    /\ dpc = "idle"
    /\ doc' \in Documents
    /\ dpc' = "open"
    /\ UNCHANGED <<content, p_index, t_index, processed_elements,
                   progress_marks, log, outcome, current_table, tableLocals,
                   wrapVars, anchorVars, calcVars, guiVars>>

\* the caller has the result or the exception (gui.py:670-689); the locals
\* of the call are gone, the extractor stays
CallReturned ==
    /\ dpc = "done"
    /\ doc' = <<>>
    /\ content' = None
    /\ p_index' = 0
    /\ t_index' = 0
    /\ processed_elements' = 0
    /\ log' = <<>>
    /\ outcome' = None
    /\ dpc' = "idle"
    /\ UNCHANGED <<progress_marks, current_table, tableLocals, wrapVars,
                   anchorVars, calcVars, guiVars>>

NextDoc ==
    \/ CallExtractContent
    \/ OpenDocument
    \/ ProcessElement
    \/ ReturnContent
    \/ CallReturned

SpecDoc == InitDoc /\ [][NextDoc]_vars

(***************************************************************************)
(* The engine's options.  Config holds the settings the caller can change  *)
(* (config.py:23-32; the GUI writes them in _apply_settings_to_config,      *)
(* gui.py:739-743); DocumentExtractor.__init__ reads text_width and        *)
(* text_indent from it (core.py:52-55).                                    *)
(***************************************************************************)
Config(base_column_width) ==
    [text_width |-> 80, text_indent |-> DEFAULT_INDENT,
     base_column_width |-> base_column_width]

\* the fields of a new extractor
DocumentExtractor(cfg) ==
    [current_table |-> None,
     text_width |-> IF cfg # None THEN cfg[1].text_width ELSE DEFAULT_TEXT_WIDTH,
     text_indent |-> IF cfg # None THEN cfg[1].text_indent ELSE DEFAULT_INDENT]

\* the base column widths a caller sets: the default and two others
BaseWidths == {8, 15, 20}

Configs == {None} \cup {Some(Config(b)) : b \in BaseWidths}

(***************************************************************************)
(* Column tiering alone: _calculate_column_widths on one row of two cells  *)
(* without spans, by an extractor built from a config.                     *)
(***************************************************************************)
\* a collected row whose cells' widest lines are as wide as ws says
TierRows(ws) ==
    << [c \in 1..Len(ws) |->
          CellData(Repeat(CH_a, ws[c]), <<Repeat(CH_a, ws[c])>>, 1, 1, FALSE, ws[c])] >>

InitTier ==
    /\ config \in Configs
    /\ engine = Some(DocumentExtractor(config))
    /\ content_widths \in (0..MaxColumnContent) \X (0..MaxColumnContent)
    /\ tier_widths = <<>>
    /\ wc_text = <<>>
    /\ wc_width = 0
    /\ span_tables = <<>>
    /\ span_widths = <<>>
    /\ legacy = None
    /\ GuiIdle
    /\ cpc = "start"
    /\ WrapIdle
    /\ TableIdle
    /\ AnchorIdle
    /\ DocIdle

\* col_widths = self._calculate_column_widths(table_data, max_cols)
CalculateTiers ==
    /\ cpc = "start"
    /\ tier_widths' = _calculate_column_widths(TierRows(content_widths),
                                               Len(content_widths)).col_widths
    /\ cpc' = "tiered"
    /\ UNCHANGED <<config, engine, content_widths, wc_text, wc_width,
                   span_tables, span_widths, legacy, wrapVars, tableVars, anchorVars,
                   docVars, guiVars>>

NextTier == CalculateTiers

SpecTier == InitTier /\ [][NextTier]_vars

(***************************************************************************)
(* The width calculator alone: _get_string_width on one string.            *)
(***************************************************************************)
\* 'a', DEL (127), U+0080, 'e' with an acute accent (233), an ideograph
WidthChars == {CH_a, 127, 128, 233, CJK}

WidthTexts == UNION {[1..n -> WidthChars] : n \in 0..MaxStringLen}

InitWidth ==
    /\ wc_text \in WidthTexts
    /\ wc_width = 0
    /\ config = None
    /\ engine = Some(DocumentExtractor(None))
    /\ content_widths = <<>>
    /\ tier_widths = <<>>
    /\ span_tables = <<>>
    /\ span_widths = <<>>
    /\ legacy = None
    /\ GuiIdle
    /\ cpc = "start"
    /\ WrapIdle
    /\ TableIdle
    /\ AnchorIdle
    /\ DocIdle

\* self._get_string_width(text)
GetStringWidth ==
    /\ cpc = "start"
    /\ wc_width' = _get_string_width(wc_text)
    /\ cpc' = "measured"
    /\ UNCHANGED <<config, engine, content_widths, tier_widths, wc_text,
                   span_tables, span_widths, legacy, wrapVars, tableVars, anchorVars,
                   docVars, guiVars>>

NextWidth == GetStringWidth

SpecWidth == InitWidth /\ [][NextWidth]_vars

(***************************************************************************)
(* Column widths of two tables that differ in the text of one spanning     *)
(* cell: _collect_table_data and _calculate_column_widths on each.         *)
(***************************************************************************)
MaxSpanCells == 3   \* raw cells of a table handed to the width assignment alone

\* cells over one column and over two, with and without merge markers
SpanCells ==
    { RawCell(<<CH_x>>, Absent, None),
      RawCell(Repeat(CH_a, 16), Absent, None),
      RawCell(<<>>, "continue", None),
      RawCell(TwoWords, Absent, Some(2)),
      RawCell(<<CH_x>>, "restart", Some(2)),
      RawCell(<<CH_y>>, "continue", Some(2)) }

\* the texts a spanning cell is given instead of its own: in each tier and above
SpanTexts == {<<>>, <<CH_x>>, Repeat(CH_a, 16), Repeat(CH_a, 31), Repeat(CJK, 23)}

RECURSIVE SpanTablesOf(_)
\* the tables with exactly n cells
SpanTablesOf(n) ==
    IF n = 0 THEN {<<>>}
    ELSE UNION {{<<row>> \o rest : row \in [1..k -> SpanCells], rest \in SpanTablesOf(n - k)}
                  : k \in 1..n}

\* table t with the text of the cell at (r, c) replaced
WithText(t, r, c, new_text) == [t EXCEPT ![r][c].text = new_text]

InitSpan ==
    /\ \E t \in UNION {SpanTablesOf(n) : n \in 1..MaxSpanCells} :
       \E r \in 1..Len(t) : \E c \in 1..Len(t[r]) : \E new_text \in SpanTexts :
          /\ t[r][c].gridSpan # None
          /\ span_tables = <<t, WithText(t, r, c, new_text)>>
    /\ span_widths = <<>>
    /\ legacy = None
    /\ GuiIdle
    /\ config = None
    /\ engine = Some(DocumentExtractor(None))
    /\ content_widths = <<>>
    /\ tier_widths = <<>>
    /\ wc_text = <<>>
    /\ wc_width = 0
    /\ cpc = "start"
    /\ WrapIdle
    /\ TableIdle
    /\ AnchorIdle
    /\ DocIdle

\* self.current_table = table; table_data, max_cols = self._collect_table_data(table);
\* col_widths = self._calculate_column_widths(table_data, max_cols)
ColumnWidthsOf(table) ==
    LET collected == CHOOSE r \in {_collect_table_data(Some(table), table)} : TRUE
    IN  IF IsRaised(collected) THEN None
        ELSE Some(_calculate_column_widths(collected.val.table_data,
                                           collected.val.max_cols).col_widths)

CalculateSpanWidths ==
    /\ cpc = "start"
    /\ span_widths' = <<ColumnWidthsOf(span_tables[1]), ColumnWidthsOf(span_tables[2])>>
    /\ cpc' = "assigned"
    /\ UNCHANGED <<config, engine, content_widths, tier_widths, wc_text, wc_width,
                   span_tables, legacy, wrapVars, tableVars, anchorVars, docVars, guiVars>>

NextSpan == CalculateSpanWidths

SpecSpan == InitSpan /\ [][NextSpan]_vars

(***************************************************************************)
(* The legacy engine, DocxExtractor._process_table                         *)
(* (docx_extractor.py:679-715), beside the current one on the same table.  *)
(* Its _get_merged_cell_info, _clean_text, _get_string_width,              *)
(* _process_cell_content and _format_table_row (docx_extractor.py:85-143,  *)
(* 285-428, 478-516) are statement for statement those of core.py, and     *)
(* its _collect_table_data, _calculate_column_widths and                   *)
(* _process_cell_wrapping (518-619, 430-476) are those of core.py with     *)
(* logger.debug lines added, so the operators above stand for both.  Its   *)
(* _generate_table_string returns the joined lines without a fence, and    *)
(* its _process_table logs the table's size before it looks at the rows.   *)
(***************************************************************************)
MaxLegacyCells == 3 \* raw cells of a table handed to both engines

\* docx_extractor.py:621-677: returns [out, table_data]
DocxExtractor_generate_table_string_bare(table_data, col_widths) ==
    LET lines == Append(TableLines(table_data, col_widths, 0), Separator(col_widths))
    IN  [out |-> JoinWith(lines, <<LF>>),
         table_data |-> [r \in 1..Len(table_data) |-> PadLines(table_data[r])]]

\* docx_extractor.py:621-677: returns [out, table_data]
DocxExtractor_generate_table_string(table_data, col_widths) ==
    LET lines == Append(TableLines(table_data, col_widths, 0), Separator(col_widths))
        table_string == JoinWith(lines, <<LF>>) \o <<LF>>
    IN  [out |-> table_string,
         table_data |-> [r \in 1..Len(table_data) |-> PadLines(table_data[r])]]

\* docx_extractor.py:679-715: returns [out, table_data, col_widths]; the locals
\* are empty where the call did not come to them
DocxExtractor_process_table(table) ==
    IF table = <<>> THEN [out |-> <<LF>>, table_data |-> <<>>, col_widths |-> <<>>]
    ELSE CHOOSE returned \in UNION {
             IF IsRaised(collected)
             THEN {[out |-> TABLE_FAILED, table_data |-> <<>>, col_widths |-> <<>>]}
             ELSE UNION {UNION {
                  {[out |-> g.out, table_data |-> g.table_data, col_widths |-> cw.col_widths] :
                     g \in {DocxExtractor_generate_table_string(wrapped, cw.col_widths)}} :
                     wrapped \in {_process_cell_wrapping(cw.table_data, cw.col_widths)}} :
                     cw \in {_calculate_column_widths(collected.val.table_data,
                                                      collected.val.max_cols)}} :
             collected \in {_collect_table_data(Some(table), table)}} : TRUE

InitLegacy ==
    /\ tbl \in TablesUpTo(MaxLegacyCells) \cup {T_STAIRS, T_WIDE}
    /\ current_table = None
    /\ spans = <<>>
    /\ tdata = <<>>
    /\ ncols = 0
    /\ widths = <<>>
    /\ out_lines = <<>>
    /\ result = <<>>
    /\ tpc = "start"
    /\ WrapIdle
    /\ AnchorIdle
    /\ DocIdle
    /\ CalcIdle
    /\ GuiIdle

\* DocxExtractor(path)._process_table(table)
LegacyProcessTable ==
    /\ legacy = None
    /\ legacy' = Some(DocxExtractor_process_table(tbl))
    /\ UNCHANGED <<config, engine, content_widths, tier_widths, wc_text, wc_width,
                   span_tables, span_widths, cpc, wrapVars, tableVars, anchorVars, docVars, guiVars>>

NextLegacy ==
    \/ ProcessEmptyTable
    \/ CollectTableData
    \/ CalculateColumnWidths
    \/ ProcessCellWrapping
    \/ GenerateTableString
    \/ LegacyProcessTable

SpecLegacy == InitLegacy /\ [][NextLegacy]_vars

(***************************************************************************)
(* The window of gui.py: the two button commands process_file and          *)
(* process_batch, which the main loop runs one after another, and the      *)
(* daemon threads they start.  A thread is "created" once Thread.start()   *)
(* has returned, "working" once its target has run its first statement     *)
(* self.processing = True, and "finished" once its finally clause has run  *)
(* self.processing = False.  A command reads self.processing once, at its  *)
(* first statement, and touches nothing the threads write, so one command  *)
(* is one step; the steps of the threads fall between the commands in any  *)
(* order.                                                                  *)
(***************************************************************************)
MaxRequests == 4

TARGET_FILE == "_process_file_thread"
TARGET_BATCH == "_process_batch_thread"

\* threading.Thread(target = ..., daemon = True).start()
StartThread(target) == Append(threads, [target |-> target, at |-> "created"])

Unfinished == {i \in 1..Len(threads) : threads[i].at # "finished"}

InitGui ==
    /\ GuiIdle
    /\ WrapIdle
    /\ TableIdle
    /\ AnchorIdle
    /\ DocIdle
    /\ CalcIdle

\* the command of the button of the single-file tab; path_ok is whether the
\* path in the entry is not empty, exists and ends in .docx
process_file ==
    /\ requests < MaxRequests
    /\ requests' = requests + 1
    /\ \E path_ok \in BOOLEAN :
          threads' = IF processing \/ ~ path_ok
                       THEN threads
                       ELSE StartThread(TARGET_FILE)
    /\ UNCHANGED <<processing, wrapVars, tableVars, anchorVars, docVars, calcVars>>

\* the command of the button of the batch tab; dir_ok is whether the input
\* directory in the entry is not empty and exists
process_batch ==
    /\ requests < MaxRequests
    /\ requests' = requests + 1
    /\ \E dir_ok \in BOOLEAN :
          threads' = IF processing \/ ~ dir_ok
                       THEN threads
                       ELSE StartThread(TARGET_BATCH)
    /\ UNCHANGED <<processing, wrapVars, tableVars, anchorVars, docVars, calcVars>>

\* the first statement of a target: self.processing = True
ThreadEnters(i, target) ==
    /\ i \in 1..Len(threads)
    /\ threads[i] = [target |-> target, at |-> "created"]
    /\ processing' = TRUE
    /\ threads' = [threads EXCEPT ![i].at = "working"]
    /\ UNCHANGED <<requests, wrapVars, tableVars, anchorVars, docVars, calcVars>>

\* the rest of a target: the work, whether it returns, returns early or
\* raises, and then the finally clause self.processing = False
ThreadLeaves(i, target) ==
    /\ i \in 1..Len(threads)
    /\ threads[i] = [target |-> target, at |-> "working"]
    /\ processing' = FALSE
    /\ threads' = [threads EXCEPT ![i].at = "finished"]
    /\ UNCHANGED <<requests, wrapVars, tableVars, anchorVars, docVars, calcVars>>

_process_file_thread_enters == \E i \in 1..MaxRequests : ThreadEnters(i, TARGET_FILE)

_process_file_thread_leaves == \E i \in 1..MaxRequests : ThreadLeaves(i, TARGET_FILE)

_process_batch_thread_enters == \E i \in 1..MaxRequests : ThreadEnters(i, TARGET_BATCH)

_process_batch_thread_leaves == \E i \in 1..MaxRequests : ThreadLeaves(i, TARGET_BATCH)

NextGui ==
    \/ process_file
    \/ process_batch
    \/ _process_file_thread_enters
    \/ _process_file_thread_leaves
    \/ _process_batch_thread_enters
    \/ _process_batch_thread_leaves

SpecGui == InitGui /\ [][NextGui]_vars

(***************************************************************************)
(* C1: after merge resolution, in every column the cells with              *)
(* verticalSpan >= 1, each covering rows r .. r+verticalSpan-1, cover      *)
(* every row of the column exactly once.                                   *)
(***************************************************************************)
\* the origins of column c whose span covers row q
CoveringOrigins(c, q) ==
    {r \in 1..Len(spans) : spans[r][c] >= 1 /\ r <= q /\ q <= r + spans[r][c] - 1}

C1_ColumnsPartitioned ==
    tpc = "resolved" =>
        \A c \in 1..Len(tbl[1]) : \A q \in 1..Len(tbl) :
            Cardinality(CoveringOrigins(c, q)) = 1

(***************************************************************************)
(* C2: every line either wrapper produces is no wider than the available   *)
(* width, unless the line is exactly one atomic unit that is by itself     *)
(* wider than the available width.  A paragraph line is measured as        *)
(* emitted (stripped, without the indent).                                 *)
(***************************************************************************)
LineFits(units, line, available_width) ==
    \/ _get_string_width(line) <= available_width
    \/ Len(units) = 1 /\ _get_string_width(units[1]) > available_width

C2_WrapWidthBound ==
    /\ wpc = "paragraph" =>
         \A i \in 1..Len(wrap_units) :
            LineFits(wrap_units[i], Strip(Concat(wrap_units[i])), available)
    /\ wpc = "cell" =>
         \A i \in 1..Len(cell_units) :
            LineFits(cell_units[i], cell_lines[i], available)

\* both cases of the claim: a wrapped text whose lines all fit, and a line that
\* is one unit wider than the available width
C2_Witness ==
    /\ wpc = "cell"
    /\ Len(cell_units) >= 2
    /\ \E i \in 1..Len(cell_units) :
          /\ Len(cell_units[i]) = 1
          /\ _get_string_width(cell_lines[i]) > available
    /\ \E i \in 1..Len(cell_units) :
          /\ Len(cell_units[i]) >= 2
          /\ _get_string_width(cell_lines[i]) <= available

(***************************************************************************)
(* C3, as claimed: after cell wrapping every line of a cell with           *)
(* horizontalSpan = 1 is no wider than its column's width minus the cell   *)
(* padding, and every line of a spanning cell no wider than the sum of the *)
(* spanned columns' widths plus the border characters between them, minus  *)
(* the cell padding.                                                       *)
(***************************************************************************)
AfterWrapping == tpc \in {"wrapped", "done"}

\* the columns cell (r, c) spans: those that exist, from its own (0-based c - 1)
SpannedUpTo(c, hspan) == Min2(c - 1 + hspan, Len(widths))

\* the sum of the spanned widths, the borders between them, less the padding
ClaimedBound(c, hspan) ==
    SumRange(widths, c - 1, SpannedUpTo(c, hspan))
      + (SpannedUpTo(c, hspan) - (c - 1) - 1) - CELL_PADDING

C3_AsClaimed ==
    AfterWrapping =>
        \A r \in 1..Len(tdata) : \A c \in 1..Len(tdata[r]) :
            \A i \in 1..Len(tdata[r][c].lines) :
                _get_string_width(tdata[r][c].lines[i]) <= ClaimedBound(c, tdata[r][c].hspan)

(***************************************************************************)
(* C3, amended: after cell wrapping every line of a cell is no wider than  *)
(* the sum of the widths of the columns it spans (those that exist) plus   *)
(* horizontalSpan - 1 border characters, minus the cell padding, unless    *)
(* the line is exactly one atomic unit that is by itself wider than that.  *)
(***************************************************************************)
WrapBound(c, hspan) ==
    SumRange(widths, c - 1, SpannedUpTo(c, hspan)) + (hspan - 1) - CELL_PADDING

C3_WrappedLinesFit ==
    AfterWrapping =>
        \A r \in 1..Len(tdata) : \A c \in 1..Len(tdata[r]) :
            \A i \in 1..Len(tdata[r][c].lines) :
                LET line == tdata[r][c].lines[i]
                    bound == WrapBound(c, tdata[r][c].hspan)
                IN  \/ _get_string_width(line) <= bound
                    \/ Len(Segment(line)) = 1 /\ _get_string_width(line) > bound

\* a two-column table after wrapping holding a cell wrapped into several lines, a
\* line that is one unit wider than its bound, and a spanning cell inside the grid
C3_Witness ==
    /\ tpc = "wrapped"
    /\ Len(widths) = 2
    /\ \E r \in 1..Len(tdata) : \E c \in 1..Len(tdata[r]) :
          /\ tdata[r][c].hspan = 1
          /\ Len(tdata[r][c].lines) >= 3
          /\ \E i \in 1..Len(tdata[r][c].lines) :
                _get_string_width(tdata[r][c].lines[i]) > widths[c] - CELL_PADDING
    /\ \E r \in 1..Len(tdata) :
          /\ tdata[r][1].hspan = 2
          /\ tdata[r][1].text # <<>>

(***************************************************************************)
(* C5: a table whose rows differ in length is rendered as a grid with the  *)
(* short rows padded; it never ends as the failure placeholder.            *)
(***************************************************************************)
Ragged(t) == \E r1, r2 \in 1..Len(t) : Len(t[r1]) # Len(t[r2])

C5_RaggedRendered ==
    Ragged(tbl) =>
        /\ tpc # "failed"
        /\ result # TABLE_FAILED
        /\ tpc = "done" => \A r \in 1..Len(tdata) : Len(tdata[r]) = ncols

(***************************************************************************)
(* What the claims about the walker speak of: the paragraph and table      *)
(* blocks among the first k elements of the body, and the rendering of the *)
(* block at position i by an extractor that has rendered nothing before.   *)
(***************************************************************************)
IsBlock(element) == IsParagraphTag(element) \/ IsTableTag(element)

RECURSIVE BlockPositions(_, _)
BlockPositions(d, k) ==
    IF k = 0 THEN <<>>
    ELSE IF IsBlock(d.body[k]) THEN Append(BlockPositions(d, k - 1), k)
    ELSE BlockPositions(d, k - 1)

StandaloneChunk(d, i) ==
    IF IsParagraphTag(d.body[i]) THEN ParagraphChunk(d.body[i].paragraph)
    ELSE IF FaultAt(d, i) # None THEN TABLE_FAILED
    ELSE _process_table(None, d.body[i].table, None).out

ExpectedContent(d, k) ==
    LET pos == BlockPositions(d, k)
    IN  [j \in 1..Len(pos) |-> StandaloneChunk(d, pos[j])]

\* the provider raises while the walker reads the paragraph at position i
ParagraphFaultAt(d, i) ==
    /\ i \in 1..Len(d.body)
    /\ IsParagraphTag(d.body[i])
    /\ FaultAt(d, i) # None

NoParagraphFault(d) ==
    /\ FaultAt(d, 0) = None
    /\ \A i \in 1..Len(d.body) : ~ParagraphFaultAt(d, i)

\* a step of rendering the table at position i raises: the provider does,
\* or the collection of the grid does
FailingTableAt(d, i) ==
    /\ i \in 1..Len(d.body)
    /\ IsTableTag(d.body[i])
    /\ \/ FaultAt(d, i) # None
       \/ /\ d.body[i].table # <<>>
          /\ IsRaised(_collect_table_data(Some(d.body[i].table), d.body[i].table))

Finished == dpc = "done" /\ outcome # None

(***************************************************************************)
(* C4: when a step of rendering a table raises, the call does not raise on *)
(* its account: the table's chunk is the failure placeholder, and every    *)
(* block of the document, before and after it, is in the output, rendered  *)
(* as it is rendered on its own.                                           *)
(***************************************************************************)
C4_TableFailureContained ==
    (Finished /\ NoParagraphFault(doc)
        /\ \E i \in 1..Len(doc.body) : FailingTableAt(doc, i))
    => /\ ~IsRaised(outcome[1])
       /\ Len(content[1]) = Len(BlockPositions(doc, Len(doc.body)))
       /\ \A j \in 1..Len(content[1]) :
             LET i == BlockPositions(doc, Len(doc.body))[j]
             IN  content[1][j] = IF FailingTableAt(doc, i) THEN TABLE_FAILED
                                 ELSE StandaloneChunk(doc, i)
       /\ outcome[1].val = Concat(content[1])

\* a ragged table between two paragraphs has been walked over
C4_Witness ==
    /\ Finished
    /\ doc.fault = None
    /\ Len(doc.body) = 3
    /\ IsParagraphTag(doc.body[1])
    /\ doc.body[2] = TableElement(T_RAGGED)
    /\ IsParagraphTag(doc.body[3])
    /\ ~IsRaised(outcome[1])
    /\ content[1][2] = TABLE_FAILED

C7_OpenFailurePropagated ==
    (Finished /\ FaultAt(doc, 0) # None)
    => outcome[1] = Raised(FaultAt(doc, 0)[1])

(***************************************************************************)
(* C8: the chunks are the renderings of the paragraph and table blocks in  *)
(* their order in the body, one chunk per block walked over, the result is *)
(* their concatenation, and it has every block when no paragraph read      *)
(* fails.                                                                  *)
(***************************************************************************)
C8_InOrderConcatenation ==
    /\ (dpc \in {"walk", "done"} /\ content # None)
       => content[1] = ExpectedContent(doc, processed_elements)
    /\ (Finished /\ ~IsRaised(outcome[1]))
       => outcome[1].val = Concat(content[1])
    /\ (Finished /\ NoParagraphFault(doc))
       => outcome[1] =
              Returned(Concat(ExpectedContent(doc, Len(doc.body))))

\* two different tables and a paragraph have been rendered
C8_Witness ==
    /\ Finished
    /\ doc.fault = None
    /\ Len(doc.body) = 3
    /\ \E i, j, k \in 1..3 :
          /\ doc.body[i] = TableElement(T_MERGED)
          /\ doc.body[j] = TableElement(T_RAGGED)
          /\ i < j
          /\ IsParagraphTag(doc.body[k])
    /\ ~IsRaised(outcome[1])
    /\ Len(content[1]) = 3

(***************************************************************************)
(* The anchor id of a rendered title: what stands between the quotes of    *)
(* its first line.                                                         *)
(***************************************************************************)
RECURSIVE UpToQuote(_, _)
UpToQuote(s, i) ==
    IF i > Len(s) \/ s[i] = 34 THEN <<>> ELSE <<s[i]>> \o UpToQuote(s, i + 1)

AnchorIdOf(out) == UpToQuote(out, Len(ANCHOR_OPEN) + 1)

BothRendered == title_out # <<>> /\ title_out[1] # None /\ title_out[2] # None

TitleNorm(k) == NormText(Strip(titles[k].text))

\* two different texts with the same hash
Collision(n1, n2) == n1 # n2 /\ Digest8(n1) = Digest8(n2)

\* the command number of a normalised text, None when it has none
CommandNumber(n) ==
    IF SearchCmd(n) = None THEN None ELSE Some(ParseInt(SearchCmd(n)[1]))

(***************************************************************************)
(* C9 as claimed: two titles whose normalised texts differ get different   *)
(* anchor ids, hash collisions aside.                                      *)
(***************************************************************************)
C9_AsClaimed ==
    (BothRendered /\ TitleNorm(1) # TitleNorm(2)
        /\ ~Collision(TitleNorm(1), TitleNorm(2)))
    => AnchorIdOf(title_out[1][1]) # AnchorIdOf(title_out[2][1])

(***************************************************************************)
(* C9: hash collisions aside, two titles get the same anchor id exactly    *)
(* when both carry a command number and the numbers are equal, or neither  *)
(* carries one and their normalised texts are equal.                       *)
(***************************************************************************)
C9_AnchorsDiffer ==
    (BothRendered /\ ~Collision(TitleNorm(1), TitleNorm(2)))
    => (AnchorIdOf(title_out[1][1]) = AnchorIdOf(title_out[2][1])
        <=> IF CommandNumber(TitleNorm(1)) # None
            THEN CommandNumber(TitleNorm(1)) = CommandNumber(TitleNorm(2))
            ELSE /\ CommandNumber(TitleNorm(2)) = None
                 /\ TitleNorm(1) = TitleNorm(2))

\* a heading and a pseudo-heading with the command numbers 7 and 1007
C9_Witness ==
    /\ BothRendered
    /\ IsHeadingStyle(titles[1])
    /\ ~IsHeadingStyle(titles[2])
    /\ CommandNumber(TitleNorm(1)) = Some(7)
    /\ CommandNumber(TitleNorm(2)) = Some(1007)
    /\ AnchorIdOf(title_out[1][1]) # AnchorIdOf(title_out[2][1])

(***************************************************************************)
(* C10: whatever the extractor has processed before, the call returns or   *)
(* raises what it does on an extractor that has processed nothing.         *)
(***************************************************************************)
C10_FunctionOfDocument ==
    Finished => outcome[1] = extract_content(Extractor(None, {}), doc).outcome

\* a merged table rendered by an extractor that came with the 25% marker of
\* an earlier document
C10_Witness ==
    /\ Finished
    /\ doc = Document(<<TableElement(T_MERGED)>>, None)
    /\ progress_marks = {25, 50}
    /\ ~IsRaised(outcome[1])
    /\ outcome[1].val # TABLE_FAILED

(***************************************************************************)
(* C11: a Restart cell followed in its column by k Continue cells, each    *)
(* with a text that is empty or equal to the origin's, resolves to         *)
(* verticalSpan = k + 1; each of the k cells is absorbed (verticalSpan =   *)
(* 0); and in a one-column table no border line stands between the rows   *)
(* of the merge.  The k cells are all the Continue cells that follow the   *)
(* origin: the cell after them, if any, is not a Continue cell.            *)
(***************************************************************************)
MergeRun(r, k) ==
    /\ tbl[r][1].vMerge = "restart"
    /\ r + k <= Len(tbl)
    /\ \A j \in (r + 1)..(r + k) :
          /\ tbl[j][1].vMerge = "continue"
          /\ Strip(tbl[j][1].text) \in {<<>>, Strip(tbl[r][1].text)}
    /\ r + k < Len(tbl) => tbl[r + k + 1][1].vMerge # "continue"

\* the lines of the rendering that are rows, not borders
ContentLines == {i \in 1..Len(out_lines) : Head(out_lines[i]) = BAR}

\* the line of row q: every cell of these grids is one line high
LineOfRow(q) ==
    CHOOSE i \in ContentLines : Cardinality({j \in ContentLines : j <= i}) = q

Unanchored(r, c) ==
    /\ tbl[r][c].vMerge = "continue"
    /\ ~ \E q \in 1..(r - 1) :
            /\ c <= Len(tbl[q])
            /\ tbl[q][c].vMerge = "restart"
            /\ \/ Strip(tbl[r][c].text) = <<>>
               \/ Strip(tbl[q][c].text) = <<>>
               \/ Strip(tbl[r][c].text) = Strip(tbl[q][c].text)

C12_UnanchoredContinueStandalone ==
    \A r \in 1..Len(tbl) : \A c \in 1..Len(tbl[r]) :
        (tpc # "start" /\ Unanchored(r, c)) =>
            /\ LET info == _get_merged_cell_info(current_table, tbl[r][c], r - 1, c - 1)
               IN  ~IsRaised(info) /\ info.val.vspan = 1
            /\ tpc # "failed"
            /\ result # TABLE_FAILED

(***************************************************************************)
(* C13: a table of R rows and C columns without merge markers whose cells' *)
(* lines are all within the first tier renders inside the fenced block as  *)
(* a top border, the R rows each preceded by a border line, and a bottom   *)
(* border: R + 1 border lines in all, every column 15 wide.                *)
(***************************************************************************)
NoMergeMarkers(t) ==
    \A r \in 1..Len(t) : \A c \in 1..Len(t[r]) : t[r][c].vMerge = Absent

\* every line of every cell's text is at most 15 columns wide
WithinFirstTier(t) ==
    \A r \in 1..Len(t) : \A c \in 1..Len(t[r]) :
        LET lines == Split(t[r][c].text, LF)
        IN  \A i \in 1..Len(lines) : _get_string_width(lines[i]) <= 15

ColumnCount(t) == MaxOf([r \in 1..Len(t) |-> Len(t[r])])

\* '+' and then fifteen '-' and a '+' for each of n columns
BorderOf(n) == [i \in 1..(1 + 16 * n) |-> IF i % 16 = 1 THEN PLUS ELSE DASH]

BorderLines == {i \in 1..Len(out_lines) : Head(out_lines[i]) = PLUS}

C13_PlainTableLayout ==
    (tpc = "done" /\ tbl # <<>> /\ NoMergeMarkers(tbl) /\ WithinFirstTier(tbl)) =>
        /\ widths = [c \in 1..ColumnCount(tbl) |-> 15]
        /\ Cardinality(BorderLines) = Len(tbl) + 1
        /\ 1 \in BorderLines
        /\ Len(out_lines) \in BorderLines
        /\ \A i \in BorderLines :
              /\ out_lines[i] = BorderOf(ColumnCount(tbl))
              /\ i + 1 \notin BorderLines
        /\ result = FENCE_OPEN \o JoinWith(out_lines, <<LF>>) \o <<LF>> \o FENCE_CLOSE

\* the table of two columns and three rows, rendered: four border lines and
\* three content rows
C13_Witness ==
    /\ tpc = "done"
    /\ tbl = T_PLAIN
    /\ Cardinality(BorderLines) = 4
    /\ Cardinality(ContentLines) = 3
    /\ widths = <<15, 15>>

(***************************************************************************)
(* C14, as claimed: an ordinary paragraph whose text is wider than         *)
(* textWidth minus the indent's width is wrapped into at least two lines,  *)
(* each the indent followed by at most that many columns of content.       *)
(***************************************************************************)
\* the lines of the wrapper as emitted, before the indent
ParagraphLines == StrippedLines(wrap_units)

\* the block of an ordinary paragraph: its lines indented, then a blank line
IndentedBlock ==
    JoinWith([i \in 1..Len(ParagraphLines) |-> indent \o ParagraphLines[i]], <<LF>>)
      \o <<LF, LF>>

WiderThanAvailable == _get_string_width(Strip(text)) > available

C14_AsClaimed ==
    (wpc = "normal" /\ WiderThanAvailable) =>
        /\ Len(ParagraphLines) >= 2
        /\ wrap_out = IndentedBlock
        /\ \A i \in 1..Len(ParagraphLines) :
              _get_string_width(ParagraphLines[i]) <= available

(***************************************************************************)
(* C14, amended: an ordinary paragraph whose trimmed text is wider than    *)
(* textWidth minus the indent's width and holds more than one atomic unit  *)
(* is wrapped into at least two lines; every line of a wrapped paragraph   *)
(* is the indent followed by at most that many columns of content, unless  *)
(* the line is one atomic unit that is by itself wider.  A line is a line  *)
(* of the wrapper: a line break of the text is a whitespace unit.          *)
(***************************************************************************)
C14_WrappedParagraph ==
    (wpc = "normal" /\ WiderThanAvailable) =>
        /\ Len(Segment(Strip(text))) >= 2 => Len(ParagraphLines) >= 2
        /\ wrap_out = IndentedBlock
        /\ \A i \in 1..Len(ParagraphLines) :
              LineFits(wrap_units[i], ParagraphLines[i], available)

\* a paragraph wrapped with an indent into two lines, the first of them as wide
\* as the available width
C14_Witness ==
    /\ wpc = "normal"
    /\ WiderThanAvailable
    /\ indent # <<>>
    /\ available >= 3
    /\ Len(ParagraphLines) = 2
    /\ _get_string_width(ParagraphLines[1]) = available
    /\ ParagraphLines[2] # <<>>

(***************************************************************************)
(* C15: an ordinary paragraph whose trimmed text is a dotted numeric       *)
(* outline prefix and then a command tag (cmd = N) in parentheses is       *)
(* rendered as a third-level heading under an anchor line with the id      *)
(* cmd- and N padded with zeros to three digits; the canonical tag         *)
(* [cmd=NNN] is appended to the text exactly when the text holds no        *)
(* command tag in brackets.                                                *)
(***************************************************************************)
\* the tags in parentheses, each with its number as the anchor writes it:
\* "(cmd=7)" and "(cmd = 007)" 007, "(cmd=8)" 008, "(cmd=1007)" 1007
ParenTags ==
    { [tag |-> <<LPAREN, 99, 109, 100, EQUALS, 55, RPAREN>>, padded |-> <<48, 48, 55>>],
      [tag |-> <<LPAREN, 99, 109, 100, SP, EQUALS, SP, 48, 48, 55, RPAREN>>,
       padded |-> <<48, 48, 55>>],
      [tag |-> <<LPAREN, 99, 109, 100, EQUALS, 56, RPAREN>>, padded |-> <<48, 48, 56>>],
      [tag |-> <<LPAREN, 99, 109, 100, EQUALS, 49, 48, 48, 55, RPAREN>>,
       padded |-> <<49, 48, 48, 55>>] }

\* "1.1 " and "1.2 "
DottedPrefixes == {<<49, DOT, 49, SP>>, <<49, DOT, 50, SP>>}

\* what follows the tag: nothing, " x", or the tag " [cmd = 8]" in brackets
TagSuffixes ==
    { [text |-> <<>>, bracketed |-> FALSE],
      [text |-> <<SP, CH_x>>, bracketed |-> FALSE],
      [text |-> <<SP, LBRACKET, 99, 109, 100, SP, EQUALS, SP, 56, RBRACKET>>,
       bracketed |-> TRUE] }

\* the block the claim describes for prefix p, tag g and suffix x
PseudoHeadingBlock(p, g, x) ==
    <<60, 97, 32, 105, 100, 61, 34>> \o <<99, 109, 100, 45>> \o g.padded
      \o <<34, 62, 60, 47, 97, 62, LF>>
      \o <<HASH, HASH, HASH, SP>> \o p \o g.tag \o x.text
      \o (IF x.bracketed THEN <<>>
          ELSE <<SP, LBRACKET, 99, 109, 100, EQUALS>> \o g.padded \o <<RBRACKET>>)
      \o <<LF, LF>>

C16_TieringMonotonic ==
    (cpc = "tiered" /\ content_widths[1] <= content_widths[2])
        => tier_widths[1] <= tier_widths[2]

\* two columns in different tiers, the second with content wider than the top
\* tier
C16_Witness ==
    /\ cpc = "tiered"
    /\ content_widths[1] = 30
    /\ content_widths[2] = 46
    /\ tier_widths[1] < tier_widths[2]

(***************************************************************************)
(* C17: the base column width of the tiering is the one the caller's       *)
(* options give, 15 when there are none: an engine configured with the     *)
(* base column width B assigns every column B, 2B or 3B.                   *)
(***************************************************************************)
ConfiguredBase == IF config = None THEN 15 ELSE config[1].base_column_width

C17_ConfiguredBaseWidth ==
    cpc = "tiered" =>
        \A c \in 1..Len(tier_widths) :
            tier_widths[c] \in {ConfiguredBase, 2 * ConfiguredBase, 3 * ConfiguredBase}

(***************************************************************************)
(* C18: the display width of a string is the sum of the widths of its      *)
(* characters: 1 for a code point up to 127, 2 for a code point above.     *)
(***************************************************************************)
C18_WidthIsSum ==
    cpc = "measured" =>
        wc_width = Cardinality({i \in 1..Len(wc_text) : wc_text[i] <= 127})
                     + 2 * Cardinality({i \in 1..Len(wc_text) : wc_text[i] > 127})

\* a string with the code points 127 and 128 and an ideograph, measured
C18_Witness ==
    /\ cpc = "measured"
    /\ wc_text = <<127, 128, CJK, CH_a>>
    /\ wc_width = 6

(***************************************************************************)
(* C19: after data collection every row of the grid has one entry for      *)
(* each grid column, and the entry at index c comes from the raw cell at   *)
(* column c of that row; padding cells stand only after the row's last     *)
(* raw cell.  The text of a cell that is no Continue cell therefore stays  *)
(* in its column, up to the rendering.                                     *)
(***************************************************************************)
Collected == tpc \in {"collected", "widths", "wrapped", "done"}

C19_GridAligned ==
    Collected =>
        \A r \in 1..Len(tbl) :
            /\ Len(tdata[r]) = ncols
            /\ \A c \in 1..ncols :
                  IF c > Len(tbl[r])
                  THEN tdata[r][c].text = <<>>
                  ELSE tbl[r][c].vMerge # "continue"
                          => tdata[r][c].text = _clean_text(tbl[r][c].text)

(***************************************************************************)
(* C20: in every rendered table a border line stands before the first row  *)
(* and after the last row, and before any other row exactly when that row  *)
(* holds no absorbed cell (verticalSpan = 0) or holds the origin of a      *)
(* vertical merge (verticalSpan > 1).                                      *)
(***************************************************************************)
\* the number of lines of row r: the most lines of a cell that is not absorbed
RowHeight(r) ==
    MaxOf(<<1>> \o [c \in 1..Len(tdata[r]) |->
                      IF tdata[r][c].vspan # 0 THEN Len(tdata[r][c].lines) ELSE 1])

\* whether the claim puts a border line before row r
BorderExpected(r) ==
    \/ r = 1
    \/ \A c \in 1..Len(tdata[r]) : tdata[r][c].vspan # 0
    \/ \E c \in 1..Len(tdata[r]) : tdata[r][c].vspan > 1

RECURSIVE ExpectedKinds(_)
\* the lines of rows r.. and the closing border, each as "border" or "row"
ExpectedKinds(r) ==
    IF r > Len(tdata) THEN <<"border">>
    ELSE (IF BorderExpected(r) THEN <<"border">> ELSE <<>>)
           \o [i \in 1..RowHeight(r) |-> "row"]
           \o ExpectedKinds(r + 1)

EmittedKinds ==
    [i \in 1..Len(out_lines) |-> IF Head(out_lines[i]) = PLUS THEN "border" ELSE "row"]

C20_BorderRule ==
    (tpc = "done" /\ tbl # <<>>) => EmittedKinds = ExpectedKinds(1)

\* the table of three rows rendered: row 1 holds an absorbed cell and an origin
\* and has a border before it, row 2 holds an absorbed cell and has none
C20_Witness ==
    /\ tpc = "done"
    /\ tbl = T_STAIRS
    /\ tdata[2][1].vspan = 0
    /\ tdata[2][2].vspan > 1
    /\ tdata[3][2].vspan = 0
    /\ EmittedKinds = <<"border", "row", "border", "row", "row", "border">>

(***************************************************************************)
(* C21: when every horizontal span stays inside the column count and no    *)
(* atomic unit is wider than its cell's available width, every text line   *)
(* of a rendered row is as wide as the border line, and is, after the      *)
(* opening border character, for every cell one space, the line's text,    *)
(* spaces up to the cell's rendering width (by display width) and a        *)
(* border character.                                                       *)
(***************************************************************************)
SpansInside ==
    \A r \in 1..Len(tdata) : \A c \in 1..Len(tdata[r]) :
        c - 1 + tdata[r][c].hspan <= ncols

\* the widths of the spanned columns and the border characters between them
RenderingWidth(c, hspan) == SumRange(widths, c - 1, c - 1 + hspan) + (hspan - 1)

UnitsFit ==
    \A r \in 1..Len(tdata) : \A c \in 1..Len(tdata[r]) :
        LET sub == Split(tdata[r][c].text, LF)
        IN  \A k \in 1..Len(sub) : \A u \in 1..Len(Segment(sub[k])) :
                _get_string_width(Segment(sub[k])[u])
                    <= RenderingWidth(c, tdata[r][c].hspan) - CELL_PADDING

RECURSIVE VisitedColumns(_, _)
\* the columns of row r a line is made of: a cell, then the one after its span
VisitedColumns(r, c) ==
    IF c > Len(tdata[r]) THEN <<>>
    ELSE <<c>> \o VisitedColumns(r, c + tdata[r][c].hspan)

\* line i of the cell at (r, c) as the claim has it rendered
RenderedCell(r, c, i) ==
    LET t == IF tdata[r][c].vspan = 0 THEN <<>> ELSE tdata[r][c].lines[i]
    IN  <<SP>> \o t
          \o Repeat(SP, RenderingWidth(c, tdata[r][c].hspan) - 1 - _get_string_width(t))
          \o <<BAR>>

RECURSIVE LineOwners(_)
\* for every text line of the rendering, in order, its row and its line in the row
LineOwners(r) ==
    IF r > Len(tdata) THEN <<>>
    ELSE [i \in 1..RowHeight(r) |-> <<r, i>>] \o LineOwners(r + 1)

RowTexts == SelectSeq(out_lines, LAMBDA l : Head(l) = BAR)

C21_RowLinesAligned ==
    (tpc = "done" /\ tbl # <<>> /\ SpansInside /\ UnitsFit) =>
        /\ Len(RowTexts) = Len(LineOwners(1))
        /\ \A k \in 1..Len(RowTexts) :
              LET r == LineOwners(1)[k][1]
                  i == LineOwners(1)[k][2]
                  cols == VisitedColumns(r, 1)
              IN  /\ _get_string_width(RowTexts[k]) = _get_string_width(out_lines[1])
                  /\ RowTexts[k] =
                        <<BAR>> \o Concat([j \in 1..Len(cols) |-> RenderedCell(r, cols[j], i)])

\* the two-column table rendered: a row of two lines, the first with an
\* ideograph, and a row that is one cell over both columns
C21_Witness ==
    /\ tpc = "done"
    /\ tbl = T_WIDE
    /\ SpansInside
    /\ UnitsFit
    /\ Len(RowTexts) = 3
    /\ Len(RowTexts[1]) = 32
    /\ _get_string_width(RowTexts[1]) = 33
    /\ VisitedColumns(2, 1) = <<1>>

(***************************************************************************)
(* C22: after wrapping, a position absorbed by a vertical merge            *)
(* (verticalSpan = 0) holds no text; its row has as many text lines as the *)
(* longest of the row's cells that are not absorbed, and at least one; and *)
(* on each of these lines the absorbed cell is spaces only, while every    *)
(* other cell shows its own line.  The cells of a line are those the row   *)
(* walk renders: a cell, then the one after its horizontal span.           *)
(***************************************************************************)
Absorbed(r, c) == tdata[r][c].vspan = 0

\* the most lines of a cell of row r that is not absorbed, and at least 1
LinesOfOthers(r) ==
    LET others == {c \in 1..Len(tdata[r]) : ~ Absorbed(r, c)}
    IN  IF others = {} THEN 1
        ELSE CHOOSE n \in 1..Len(out_lines) :
                /\ \A c \in others : Len(tdata[r][c].lines) <= n
                /\ n = 1 \/ \E c \in others : Len(tdata[r][c].lines) = n

RECURSIVE OwnersByOthers(_)
\* for every text line expected, in order, its row and its line in the row
OwnersByOthers(r) ==
    IF r > Len(tdata) THEN <<>>
    ELSE [i \in 1..LinesOfOthers(r) |-> <<r, i>>] \o OwnersByOthers(r + 1)

\* the text line between its border characters: one piece per rendered cell
Pieces(line) == SubSeq(Split(line, BAR), 2, Len(Split(line, BAR)) - 1)

IsPrefix(p, t) == Len(p) <= Len(t) /\ SubSeq(t, 1, Len(p)) = p

C22_AbsorbedCellsBlank ==
    /\ AfterWrapping =>
          \A r \in 1..Len(tdata) : \A c \in 1..Len(tdata[r]) :
              Absorbed(r, c) =>
                  /\ tdata[r][c].text = <<>>
                  /\ \A i \in 1..Len(tdata[r][c].lines) : tdata[r][c].lines[i] = <<>>
    /\ (tpc = "done" /\ tbl # <<>>) =>
          /\ Len(RowTexts) = Len(OwnersByOthers(1))
          /\ \A k \in 1..Len(RowTexts) :
                LET r == OwnersByOthers(1)[k][1]
                    i == OwnersByOthers(1)[k][2]
                    cols == VisitedColumns(r, 1)
                    pieces == Pieces(RowTexts[k])
                IN  /\ Len(pieces) = Len(cols)
                    /\ \A j \in 1..Len(cols) :
                          IF Absorbed(r, cols[j])
                          THEN \A n \in 1..Len(pieces[j]) : pieces[j][n] = SP
                          ELSE IsPrefix(<<SP>> \o tdata[r][cols[j]].lines[i], pieces[j])

\* a rendered row of three lines whose last cell is absorbed
C22_Witness ==
    /\ tpc = "done"
    /\ Len(tdata) = 2
    /\ Len(tdata[2]) = 2
    /\ Absorbed(2, 2)
    /\ ~ Absorbed(2, 1)
    /\ Len(tdata[2][1].lines) = 3
    /\ Len(RowTexts) = 4
    /\ Pieces(RowTexts[4])[2] = Repeat(SP, 15)

(***************************************************************************)
(* C23: the width assigned to a column is BASE when the column's maximum   *)
(* content width is <= BASE, 2 * BASE when it is <= 2 * BASE and 3 * BASE  *)
(* otherwise, and wrapping and rendering leave the assigned widths as they *)
(* are.  BASE is the engine's base column width, BASE_COLUMN_WIDTH.        *)
(***************************************************************************)
\* the widest line among the cells of column c that span one column; 0 if none
ColumnContent(c) ==
    LET ws == {0} \cup {tdata[r][c].max_line_width :
                          r \in {q \in 1..Len(tdata) : tdata[q][c].hspan = 1}}
    IN  CHOOSE m \in ws : \A w \in ws : w <= m

ClaimedTier(w) ==
    IF w <= BASE_COLUMN_WIDTH THEN BASE_COLUMN_WIDTH
    ELSE IF w <= 2 * BASE_COLUMN_WIDTH THEN 2 * BASE_COLUMN_WIDTH
    ELSE 3 * BASE_COLUMN_WIDTH

C23_TierAssignedOnce ==
    [][ /\ tpc = "collected" =>
              /\ Len(widths') = ncols
              /\ \A c \in 1..ncols : widths'[c] = ClaimedTier(ColumnContent(c))
        /\ tpc \in {"widths", "wrapped"} => widths' = widths ]_vars

\* the table of four columns rendered, its columns in the three tiers
C23_Witness ==
    /\ tpc = "done"
    /\ tbl = T_TIERS
    /\ widths = <<15, 30, 45, 45>>
    /\ tdata[2][4].max_line_width = 46

(***************************************************************************)
(* C24: only cells with horizontalSpan = 1 count for a column's width: of  *)
(* two tables that differ in nothing but the text of a cell with           *)
(* horizontalSpan > 1, and that both get their widths, every column is     *)
(* assigned the same width.                                                *)
(***************************************************************************)
BothAssigned ==
    /\ cpc = "assigned"
    /\ span_widths[1] # None
    /\ span_widths[2] # None

C24_SpanningTextNoEffect == BothAssigned => span_widths[1] = span_widths[2]

\* the cell over two columns holds 14 columns in one table and 46 in the other,
\* above a row of two cells: both tables get 15 and 15
C24_Witness ==
    /\ BothAssigned
    /\ span_tables[1][1] = <<RawCell(TwoWords, Absent, Some(2))>>
    /\ span_tables[2][1] = <<RawCell(Repeat(CJK, 23), Absent, Some(2))>>
    /\ Len(span_tables[1]) = 2
    /\ Len(span_tables[1][2]) = 2
    /\ span_widths[2] = Some(<<15, 15>>)

(***************************************************************************)
(* C25: wrapping is greedy and splits no unit.  The lines of either        *)
(* wrapper, taken one after the other, are the units of the text whole and *)
(* in order; and where a line follows another within one wrapped text (a   *)
(* paragraph, or one newline-separated sub-line of a cell), the first unit *)
(* of the later line would not have fit on the line before it.             *)
(***************************************************************************)
\* the width of a line under construction: the widths of its units
UnitsWidth(units) == _get_string_width(Concat(units))

\* the units of a cell text: those of its sub-lines, one sub-line after the other
CellTextUnits(t) == Concat([k \in 1..Len(Split(t, LF)) |-> Segment(Split(t, LF)[k])])

\* the numbers of units at which a sub-line of the cell text ends
SubLineEnds(t) ==
    {Len(CellTextUnits(JoinWith(SubSeq(Split(t, LF), 1, k), <<LF>>))) :
        k \in 1..Len(Split(t, LF))}

\* line i of lines follows line i - 1 although its first unit would have fit
BreakTooEarly(lines, i, available_width) ==
    /\ lines[i - 1] # <<>>
    /\ lines[i] # <<>>
    /\ UnitsWidth(lines[i - 1]) + _get_string_width(lines[i][1]) <= available_width

C25_GreedyWrapping ==
    /\ (wpc = "paragraph" /\ text # <<>>) =>
          /\ Concat(wrap_units) = Segment(text)
          /\ \A i \in 1..Len(wrap_units) : wrap_units[i] # <<>>
          /\ \A i \in 2..Len(wrap_units) : ~ BreakTooEarly(wrap_units, i, available)
    /\ wpc = "cell" =>
          /\ Concat(cell_units) = CellTextUnits(text)
          /\ \A i \in 2..Len(cell_units) :
                BreakTooEarly(cell_units, i, available) =>
                    Len(Concat(SubSeq(cell_units, 1, i - 1))) \in SubLineEnds(text)

\* a cell text of two sub-lines, the first wrapped into two lines after a unit
\* that fills its line exactly
C25_Witness ==
    /\ wpc = "cell"
    /\ text = <<CH_a, SP, CH_a, LF, CJK>>
    /\ available = 2
    /\ cell_units = << <<<<CH_a>>, <<SP>>>>, <<<<CH_a>>>>, <<<<CJK>>>> >>

(***************************************************************************)
(* C26, as claimed: the units of a line are, in order, the maximal runs of *)
(* whitespace characters, the maximal runs of non-whitespace characters    *)
(* with code point <= 127, and every character above 127 by itself.        *)
(***************************************************************************)
IsWordUnit(u) == u # <<>> /\ \A i \in 1..Len(u) : ~ IsSpace(u[i]) /\ u[i] <= 127
IsSpaceRun(u) == u # <<>> /\ \A i \in 1..Len(u) : IsSpace(u[i])
IsSpaceUnit(u) == Len(u) = 1 /\ IsSpace(u[1])
IsWideUnit(u) == Len(u) = 1 /\ ~ IsSpace(u[1]) /\ u[1] > 127

\* the units the wrapper segmented the text into, and the places between two
\* units where one segmented line ends and the next begins
SegmentedUnits == IF wpc = "cell" THEN Concat(cell_units) ELSE Concat(wrap_units)
SegmentedText == IF wpc = "cell" THEN Concat(Split(text, LF)) ELSE text
LineEnds == IF wpc = "cell" THEN SubLineEnds(text) ELSE {}

\* units k and k + 1 stand next to each other in one segmented line
Adjacent(k) == k \in 1..(Len(SegmentedUnits) - 1) /\ k \notin LineEnds

SegmentationDone == wpc \in {"paragraph", "cell"} /\ text # <<>>

RECURSIVE Reproduces(_, _)
\* lines are the output for the sub-lines subs, in order and nothing besides
Reproduces(lines, subs) ==
    IF subs = <<>> THEN lines = <<>>
    ELSE IF Head(subs) = <<>>
    THEN lines # <<>> /\ Head(lines) = <<>> /\ Reproduces(Tail(lines), Tail(subs))
    ELSE \E n \in 1..Len(lines) :
            /\ \A i \in 1..n : lines[i] # <<>>
            /\ Concat(SubSeq(lines, 1, n)) = Head(subs)
            /\ Reproduces(SubSeq(lines, n + 1, Len(lines)), Tail(subs))

C27_CellWrappingLossless ==
    wpc = "cell" =>
        /\ Reproduces(cell_lines, Split(text, LF))
        /\ Concat(cell_lines) = SelectSeq(text, LAMBDA ch : ch # LF)

\* "a " wrapped into two lines at width 1, an empty sub-line, an ideograph that
\* is wider than the cell
C27_Witness ==
    /\ wpc = "cell"
    /\ text = <<CH_a, SP, LF, LF, CJK>>
    /\ available = 1
    /\ cell_lines = << <<CH_a>>, <<SP>>, <<>>, <<CJK>> >>

(***************************************************************************)
(* C28: on every table the current engine and the legacy engine compute    *)
(* the same spans, column widths and wrapped lines; the current engine's   *)
(* result is the legacy grid inside the text fence; both return the blank  *)
(* line for a table without rows, and each returns the failure placeholder *)
(* exactly when the other does.                                            *)
(***************************************************************************)
BothEnginesDone == tpc \in {"done", "failed"} /\ legacy # None

ReturnedNormally == Finished /\ ~ IsRaised(outcome[1])

C29_NoProgressStateSurvives == ReturnedNormally => progress_marks = {}

(***************************************************************************)
(* C30: at most one processing job at a time: while a thread started by    *)
(* process_file or process_batch has not finished, a further command       *)
(* starts no second thread, so no two started threads are unfinished       *)
(* together.                                                               *)
(***************************************************************************)
C30_AtMostOneJob == Cardinality(Unfinished) <= 1

====
